---------------------------- MODULE Spec2Model ----------------------------
(***************************************************************************)
(* Verification model of grumptech-fs-hasher: the file-system hash tree    *)
(* (FileHashEntry / DirectoryHashEntry / BatchHashEntry), the FSHasher     *)
(* facade and the hash-request serializer (FileHasherSerializer).          *)
(*                                                                         *)
(* Strings are sequences of character codes.  A character code is a        *)
(* natural number; even codes are upper-case characters, the odd code      *)
(* c + 1 is the lower-case form of the even code c.  The JavaScript values *)
(* undefined and null are the one-element sequences <<-1>> and <<-2>>.     *)
(***************************************************************************)
EXTENDS Integers, Sequences, FiniteSets, TLC

(***************************************************************************)
(* Bounds of the model.                                                    *)
(***************************************************************************)
MaxCalls == 3
MaxEmfile == 1
MaxRetries == 2
MaxNodeCalls == 4
MaxSerCalls == 3
MaxIoFaults == 1
MaxOverlaps == 1
MaxInFlightAtBuild == 0
MaxBuilds == 1
MaxComputes == 1
MaxOverlappingBuilds == 2

(***************************************************************************)
(* JavaScript values                                                       *)
(***************************************************************************)
Undefined == <<-1>>
Null == <<-2>>
EmptyString == << >>

\* is-it-check's existy(): neither undefined nor null
existy(v) == v # Undefined /\ v # Null

Min(a, b) == IF a <= b THEN a ELSE b

\* String.prototype.toUpperCase on a string of character codes
toUpperCase(s) == [i \in 1..Len(s) |-> IF s[i] % 2 = 1 THEN s[i] - 1 ELSE s[i]]

\* a string is in upper case when toUpperCase leaves it alone
IsUpperCase(s) == \A i \in 1..Len(s) : s[i] % 2 = 0

\* the < operator on two strings: code-unit lexicographic order
StrLess(a, b) ==
    \E i \in 1..(Min(Len(a), Len(b)) + 1) :
        /\ \A j \in 1..(i - 1) : a[j] = b[j]
        /\ \/ i = Len(a) + 1 /\ i <= Len(b)
           \/ i <= Len(a) /\ i <= Len(b) /\ a[i] < b[i]

\* the < operator of the language on two digest values: with undefined or
\* null on either side the operands are compared as numbers, one of which
\* is NaN, and the result is false
JsLess(a, b) == existy(a) /\ existy(b) /\ StrLess(a, b)

(***************************************************************************)
(* The hash primitive (crypto.createHash).  The accumulator of a Hash      *)
(* object is the concatenation of everything fed to update(); the digest   *)
(* is an injective lower-case rendering of the algorithm and that data.    *)
(***************************************************************************)
HASH_ALGORITHMS == {"md5", "sha224", "sha256", "sha384", "sha512"}

AlgChar(alg) ==
    CASE alg = "md5"    -> 90
      [] alg = "sha224" -> 92
      [] alg = "sha256" -> 94
      [] alg = "sha384" -> 96
      [] OTHER          -> 98

\* createHash(alg) throws for a name the primitive does not know
createHashThrows(alg) == alg \notin HASH_ALGORITHMS

\* hash.digest('hex') of an accumulator that was fed `data`
digestHex(alg, data) ==
    <<AlgChar(alg) + 1>> \o [i \in 1..Len(data) |-> IF data[i] % 2 = 0 THEN data[i] + 1 ELSE data[i]]

(***************************************************************************)
(* The comparators the program sorts with                                  *)
(***************************************************************************)
\* the comparator handed to results.sort
digestCompare(a, b) ==
    IF JsLess(a.digest, b.digest) THEN -1
    ELSE IF JsLess(b.digest, a.digest) THEN 1
    ELSE 0

\* the default comparator of Array.prototype.sort compares the elements'
\* string forms; every hash entry has the string form "[object Object]"
defaultCompare(a, b) == 0

\* the comparator named cmp applied to a and b
Compare(cmp, a, b) ==
    IF cmp = "digest" THEN digestCompare(a, b) ELSE defaultCompare(a, b)

(***************************************************************************)
(* Array.prototype.sort of the engine for arrays shorter than 64 elements: *)
(* the leading run is found (and reversed when strictly descending), the   *)
(* other elements are placed by binary insertion.  cmp names the           *)
(* comparator.                                                             *)
(***************************************************************************)
Reverse(s) == [i \in 1..Len(s) |-> s[Len(s) + 1 - i]]

CountRun(s, cmp) ==
    IF Len(s) < 2 THEN Len(s)
    ELSE LET desc == Compare(cmp, s[2], s[1]) < 0
             ok(j) == IF desc THEN Compare(cmp, s[j], s[j - 1]) < 0
                      ELSE Compare(cmp, s[j], s[j - 1]) >= 0
             runs == {k \in 2..Len(s) : \A j \in 3..k : ok(j)}
         IN  CHOOSE k \in runs : \A m \in runs : m <= k

MakeRun(s, cmp) ==
    IF Len(s) < 2 THEN s
    ELSE LET n == CountRun(s, cmp)
         IN  IF Compare(cmp, s[2], s[1]) < 0
             THEN Reverse(SubSeq(s, 1, n)) \o SubSeq(s, n + 1, Len(s))
             ELSE s

\* the slot found by the binary search for s[start] in s[1..start-1]
InsertionPoint(s, start, cmp) ==
    LET pivot == s[start]
        find[lr \in (0..Len(s)) \X (0..Len(s))] ==
            LET left == lr[1]
                right == lr[2]
                mid == left + ((right - left) \div 2)
            IN  IF left >= right THEN left
                ELSE IF Compare(cmp, pivot, s[mid + 1]) < 0 THEN find[<<left, mid>>]
                     ELSE find[<<mid + 1, right>>]
    IN  find[<<0, start - 1>>] + 1

InsertAt(s, start, pos) ==
    SubSeq(s, 1, pos - 1) \o <<s[start]>> \o SubSeq(s, pos, start - 1) \o SubSeq(s, start + 1, Len(s))

ArraySort(s, cmp) ==
    LET run == CountRun(s, cmp)
        first == MakeRun(s, cmp)
        pass[k \in 0..Len(s)] ==
            IF k <= run THEN first
            ELSE InsertAt(pass[k - 1], k, InsertionPoint(pass[k - 1], k, cmp))
    IN  pass[Len(s)]

(***************************************************************************)
(* Values handed to the API as a source: a string, an array of strings,    *)
(* undefined, or a value of another type (number, boolean).                *)
(***************************************************************************)
JsString(s) == [t |-> "string", s |-> s, a |-> << >>, truthy |-> Len(s) > 0]
JsArray(a) == [t |-> "array", s |-> EmptyString, a |-> a, truthy |-> TRUE]
JsUndefined == [t |-> "undefined", s |-> Undefined, a |-> << >>, truthy |-> FALSE]
JsOther(t, truthy) == [t |-> t, s |-> EmptyString, a |-> << >>, truthy |-> truthy]

(***************************************************************************)
(* The file system.  A path is a string; modPath.join appends the entry    *)
(* name to the directory's path.                                           *)
(***************************************************************************)
RootPath == <<2>>
EntryNames == {4, 6, 8}
join(dir, name) == dir \o <<name>>
AllPaths == {RootPath} \cup {join(RootPath, n) : n \in EntryNames} \cup {join(join(RootPath, 4), 4)}

NoEntry == [kind |-> "none", data |-> << >>, order |-> << >>]
FileEntry(data) == [kind |-> "file", data |-> data, order |-> << >>]
DirEntry == [kind |-> "dir", data |-> << >>, order |-> << >>]

KindOf(fs, path) == IF path \in DOMAIN fs THEN fs[path].kind ELSE "none"

\* fs.promises.access(path, R_OK) followed by fs.promises.stat(path)
statType(fs, path) ==
    CASE KindOf(fs, path) = "dir"  -> "DIRECTORY"
      [] KindOf(fs, path) = "file" -> "FILE"
      [] KindOf(fs, path) \in {"none", "denied"} -> "INVALID"
      [] OTHER -> "OTHER"

\* FileSystemHashEntryBase._getFileSystemType; "PENDING" is the promise that
\* is never resolved
_getFileSystemType(fs, source) ==
    CASE source.t \in {"undefined", "null"} -> "INVALID"
      [] source.t = "string" -> statType(fs, source.s)
      [] source.t = "array" ->
            IF \E i \in 1..Len(source.a) :
                   Len(source.a[i]) > 0 /\ statType(fs, source.a[i]) \notin {"FILE", "DIRECTORY"}
            THEN "INVALID" ELSE "BATCH"
      [] OTHER -> "PENDING"

\* the names fs.promises.readdir finds in a directory
EntriesOf(fs, dir) == {n \in EntryNames : KindOf(fs, join(dir, n)) # "none"}

\* every order in which readdir may list the names of a set
Listings(S) ==
    {f \in [1..Cardinality(S) -> S] : \A i, j \in 1..Cardinality(S) : i # j => f[i] # f[j]}

(***************************************************************************)
(* The combination algorithm of DirectoryHashEntry.Compute: the settled    *)
(* child results are sorted by digest and folded through one accumulator.  *)
(***************************************************************************)
\* a loop that does not feed the first present digest to the accumulator
foldStepSkipFirst(alg, st, result) ==
    LET data == IF existy(result.digest) /\ existy(st.digest)
                THEN st.data \o result.digest ELSE st.data
    IN  [data |-> data,
         digest |-> IF ~existy(st.digest) THEN result.digest
                    ELSE IF existy(result.digest) THEN toUpperCase(digestHex(alg, data))
                    ELSE st.digest]

\* a loop that takes the accumulator's digest for the first present digest too
foldStepRehash(alg, st, result) ==
    LET data == IF existy(result.digest) THEN st.data \o result.digest ELSE st.data
    IN  [data |-> data,
         digest |-> IF existy(result.digest) THEN toUpperCase(digestHex(alg, data))
                    ELSE st.digest]

\* a loop that takes the accumulator's digest after every result
foldStepHashAll(alg, st, result) ==
    LET data == IF existy(result.digest) THEN st.data \o result.digest ELSE st.data
    IN  [data |-> data, digest |-> toUpperCase(digestHex(alg, data))]

\* one pass of the loop over the sorted results; st is the accumulator's
\* data and the node's digest so far
foldStep(alg, st, result) ==
    LET data == IF existy(result.digest) THEN st.data \o result.digest ELSE st.data
    IN  [data |-> data,
         digest |-> IF ~existy(st.digest) THEN result.digest
                    ELSE IF existy(result.digest) THEN toUpperCase(digestHex(alg, data))
                    ELSE st.digest]

\* the node's digest after the loop over `sorted`
foldDigests(alg, sorted) ==
    LET walk[k \in 0..Len(sorted)] ==
            IF k = 0 THEN [data |-> EmptyString, digest |-> Undefined]
            ELSE foldStep(alg, walk[k - 1], sorted[k])
    IN  walk[Len(sorted)].digest

combineResults(alg, results) == foldDigests(alg, ArraySort(results, "digest"))

(***************************************************************************)
(* State                                                                   *)
(***************************************************************************)
VARIABLES
    fsys,       \* the file system: path -> entry
    nodes,      \* the hash entries created so far (FileSystemHashEntryBase)
    hasher,     \* FSHasherInternal: _algorithm and _rootSource
    calls,      \* the promises of the operations in flight, by call id
    ncalls,     \* number of API calls made by the client so far
    requests,   \* the HashRequest objects created so far
    ser,        \* InternalFileHasherSerializer._instance and its lists
    timers,     \* pending setTimeout callbacks (the instance each is bound to)
    faults,     \* the faults the environment may still inject: emfile is the
                \* number of opens it may fail for want of descriptors, io the
                \* number of other input/output errors
    registry    \* the keys of _internalFSHashObjs: the FSHasher objects that
                \* are registered

vars == <<fsys, nodes, hasher, calls, ncalls, requests, ser, timers, faults, registry>>

\* the part of the state that synchronous code reads and writes
Machine ==
    [nodes |-> nodes, hasher |-> hasher, calls |-> calls,
     requests |-> requests, ser |-> ser, timers |-> timers, ret |-> 0]

\* requests nothing refers to any more are forgotten: those at the end of
\* `requests` whose worker was destroyed or whose open failed for good
RECURSIVE TrimRequests(_)
TrimRequests(rs) ==
    IF Len(rs) > 0 /\ rs[Len(rs)].phase \in {"closed", "failed"}
    THEN TrimRequests(SubSeq(rs, 1, Len(rs) - 1)) ELSE rs

\* the instances of the serializer are numbered; the numbering starts over
\* when no instance and no timer is left
TidySer(sr, ts) == IF ~sr.exists /\ Len(ts) = 0 THEN [sr EXCEPT !.epoch = 0] ELSE sr

Commit(M) ==
    /\ nodes' = M.nodes
    /\ hasher' = M.hasher
    /\ calls' = M.calls
    /\ requests' = TrimRequests(M.requests)
    /\ ser' = TidySer(M.ser, M.timers)
    /\ timers' = M.timers

(***************************************************************************)
(* Hash entries                                                            *)
(***************************************************************************)
\* the constructors of FileSystemHashEntryBase and DirectoryHashEntry
NewEntry(type) ==
    [type |-> type, source |-> JsUndefined, digest |-> Undefined,
     depth |-> 0, busy |-> FALSE, childItems |-> << >>]

\* Entries are kept in blocks, one block for each tree the facade builds:
\* the entry of a path has a fixed place in its block, the batch entry the
\* last place.  NoNode is a place no entry was made for.
NoNode == NewEntry("NONE")
PathIndex(path) ==
    CASE path = RootPath -> 1
      [] path = join(RootPath, 4) -> 2
      [] path = join(RootPath, 6) -> 3
      [] path = join(RootPath, 8) -> 4
      [] OTHER -> 5
BlockSize == Cardinality(AllPaths) + 1
NewBlock == [i \in 1..BlockSize |-> NoNode]
BlockOf(n) == ((n - 1) \div BlockSize) * BlockSize
PlaceOf(base, type, path) == base + (IF type = "BATCH" THEN BlockSize ELSE PathIndex(path))

\* BatchHashEntry.Source: the items of the array joined by commas (code 0);
\* FileSystemHashEntryBase.Source otherwise
RECURSIVE joinItems(_)
joinItems(a) ==
    IF Len(a) = 0 THEN EmptyString
    ELSE LET rest == joinItems(Tail(a))
         IN  IF Len(rest) > 0 THEN Head(a) \o <<0>> \o rest ELSE Head(a)

Source(ns, n) ==
    IF ns[n].type = "BATCH" THEN joinItems(ns[n].source.a) ELSE ns[n].source.s

\* _is.string(this.Source) && _is.above(this.Source.length, 0)
HasSource(ns, n) ==
    IF ns[n].type = "BATCH" THEN Len(joinItems(ns[n].source.a)) > 0
    ELSE ns[n].source.t = "string" /\ Len(ns[n].source.s) > 0

\* the IsBusy getters: a directory is busy when it or any child is
RECURSIVE IsBusy(_, _)
IsBusy(ns, n) ==
    \/ ns[n].busy
    \/ /\ ns[n].type # "FILE"
       /\ \E i \in 1..Len(ns[n].childItems) : IsBusy(ns, ns[n].childItems[i])

\* the children in the order in which Build made them
ChildrenAsBuilt(ns, n) == ns[n].childItems

\* DirectoryHashEntry._Children: directories, then files, each sorted
ChildrenOf(ns, n) ==
    LET isDir(c) == ns[c].type = "DIRECTORY"
        isFile(c) == ns[c].type = "FILE"
        directories == ArraySort(SelectSeq(ns[n].childItems, isDir), "default")
        files == ArraySort(SelectSeq(ns[n].childItems, isFile), "default")
    IN  directories \o files

(***************************************************************************)
(* Promises.  Every operation in flight is a call record; pc is the point  *)
(* at which its asynchronous body is suspended, "done" a resolved promise  *)
(* (val is the value), "thrown" a body that raised after its last await    *)
(* (the promise is never resolved), "threw" a synchronous exception.       *)
(***************************************************************************)
NoVal ==
    [kind |-> "none", b |-> FALSE, source |-> EmptyString, digest |-> Undefined,
     report |-> << >>, map |-> << >>]
BoolVal(b) == [NoVal EXCEPT !.kind = "boolean", !.b = b]
\* {source, digest} as Compute resolves it
ResultVal(source, digest) == [NoVal EXCEPT !.kind = "result", !.source = source, !.digest = digest]
\* a bare value: a string, undefined or null
PlainVal(v) == [NoVal EXCEPT !.kind = "value", !.digest = v]

FreeCall ==
    [op |-> "none", node |-> 0, parent |-> 0, pc |-> "free", src |-> JsUndefined,
     alg |-> "", depth |-> 0, items |-> << >>, idx |-> 0, kids |-> << >>, val |-> NoVal,
     err |-> "", overlap |-> FALSE, wrapper |-> 0]

NewCall(op, node, parent, pc) ==
    [FreeCall EXCEPT !.op = op, !.node = node, !.parent = parent, !.pc = pc]

RECURSIVE Trim(_)
Trim(cs) ==
    IF Len(cs) > 0 /\ cs[Len(cs)].op = "none" THEN Trim(SubSeq(cs, 1, Len(cs) - 1)) ELSE cs

\* the records of the calls `ids` are dropped once their values were taken
Release(cs, ids) ==
    Trim([i \in 1..Len(cs) |-> IF \E k \in 1..Len(ids) : ids[k] = i THEN FreeCall ELSE cs[i]])

\* a new call record; its id is returned in M.ret
AddCall(M, call) ==
    [M EXCEPT !.calls = Append(M.calls, call), !.ret = Len(M.calls) + 1]

Resolve(M, c, val) == [M EXCEPT !.calls[c].pc = "done", !.calls[c].val = val]

\* a join that goes on as soon as one of the promises is resolved
AnyDone(cs, ids) == Len(ids) = 0 \/ \E k \in 1..Len(ids) : cs[ids[k]].pc = "done"

AllDone(cs, ids) == \A k \in 1..Len(ids) : cs[ids[k]].pc = "done"

(***************************************************************************)
(* Build                                                                   *)
(***************************************************************************)
\* FileSystemHashEntryBase.Build up to its await: a node that is not busy
\* takes the source and depth and becomes busy
baseBuild(ns, n, src, depth) ==
    IF ~ns[n].busy
    THEN [ns EXCEPT ![n].busy = TRUE, ![n].source = src, ![n].digest = Undefined, ![n].depth = depth]
    ELSE ns

\* a Build that takes a batch entry at any depth
startBuildAnyDepth(M, n, src, depth, parent) ==
    LET type == M.nodes[n].type
        cleared == IF type = "FILE" THEN M.nodes ELSE [M.nodes EXCEPT ![n].childItems = << >>]
        call == [NewCall("Build", n, parent, IF M.nodes[n].busy THEN "thrown" ELSE "probe")
                    EXCEPT !.src = src, !.depth = depth]
    IN  IF type = "BATCH" /\ src.truthy /\ src.t # "array"
        THEN AddCall(M, [call EXCEPT !.pc = "threw", !.err = "TypeError"])
        ELSE AddCall([M EXCEPT !.nodes = baseBuild(cleared, n, src, depth)], call)

\* FileHashEntry.Build, DirectoryHashEntry.Build and BatchHashEntry.Build up
\* to the first await.  A batch entry raises a TypeError for a source that
\* is not an array and a RangeError for a depth other than 0.  On a busy
\* node the base class resolves INVALID, the type check of the subclass
\* fails and the body raises.
startBuild(M, n, src, depth, parent) ==
    LET type == M.nodes[n].type
        cleared == IF type = "FILE" THEN M.nodes ELSE [M.nodes EXCEPT ![n].childItems = << >>]
        call == [NewCall("Build", n, parent, IF M.nodes[n].busy THEN "thrown" ELSE "probe")
                    EXCEPT !.src = src, !.depth = depth]
    IN  IF type = "BATCH" /\ src.truthy /\ src.t # "array"
        THEN AddCall(M, [call EXCEPT !.pc = "threw", !.err = "TypeError"])
        ELSE IF type = "BATCH" /\ depth # 0
        THEN AddCall(M, [call EXCEPT !.pc = "threw", !.err = "RangeError"])
        ELSE AddCall([M EXCEPT !.nodes = baseBuild(cleared, n, src, depth)], call)

\* the index of the next item of a batch source that is not skipped
RECURSIVE nextItem(_, _)
nextItem(items, i) ==
    IF i <= Len(items) /\ Len(items[i]) = 0 THEN nextItem(items, i + 1) ELSE i

\* the continuation after `await super.Build(src, dep)`
BuildProbe(c) ==
    /\ calls[c].op = "Build" /\ calls[c].pc = "probe"
    /\ LET n == calls[c].node
           type == nodes[n].type
           fsType == _getFileSystemType(fsys, calls[c].src)
       IN  /\ fsType # "PENDING"
           /\ IF fsType # type
              THEN /\ calls' = [calls EXCEPT ![c].pc = "thrown"]
                   /\ nodes' = nodes
              ELSE CASE type = "FILE" ->
                          /\ nodes' = [nodes EXCEPT ![n].busy = FALSE]
                          /\ calls' = [calls EXCEPT ![c].pc = "done", ![c].val = BoolVal(TRUE)]
                     [] type = "DIRECTORY" ->
                          /\ nodes' = nodes
                          /\ calls' = [calls EXCEPT ![c].pc = "readdir"]
                     [] OTHER ->
                          /\ nodes' = nodes
                          /\ calls' = [calls EXCEPT
                                 ![c].items = calls[c].src.a,
                                 ![c].idx = nextItem(calls[c].src.a, 1),
                                 ![c].pc = IF nextItem(calls[c].src.a, 1) > Len(calls[c].src.a)
                                           THEN "join" ELSE "childProbe"]
    /\ UNCHANGED <<fsys, registry, hasher, ncalls, requests, ser, timers, faults>>

\* the continuation after `await readdir(this.Source)`
BuildReaddir(c) ==
    /\ calls[c].op = "Build" /\ calls[c].pc = "readdir"
    /\ LET n == calls[c].node
           dir == Source(nodes, n)
       IN  IF KindOf(fsys, dir) # "dir"
           THEN /\ nodes' = [nodes EXCEPT ![n].busy = FALSE]
                /\ calls' = [calls EXCEPT ![c].pc = "done", ![c].val = BoolVal(FALSE)]
           ELSE LET files == fsys[dir].order
                IN IF Len(files) > 0
                   THEN /\ nodes' = nodes
                        /\ calls' = [calls EXCEPT
                               ![c].items = [i \in 1..Len(files) |-> join(dir, files[i])],
                               ![c].idx = 1, ![c].pc = "childProbe"]
                   ELSE /\ nodes' = [nodes EXCEPT ![n].busy = FALSE]
                        /\ calls' = [calls EXCEPT ![c].pc = "done", ![c].val = BoolVal(TRUE)]
    /\ UNCHANGED <<fsys, registry, hasher, ncalls, requests, ser, timers, faults>>

\* one pass of the loop over the entries: the continuation after
\* `await _getFileSystemType(childSource)`
BuildChildProbe(c) ==
    /\ calls[c].op = "Build" /\ calls[c].pc = "childProbe"
    /\ LET n == calls[c].node
           item == calls[c].items[calls[c].idx]
           fsChildType == statType(fsys, item)
           next == nextItem(calls[c].items, calls[c].idx + 1)
           pc == IF next > Len(calls[c].items) THEN "join" ELSE "childProbe"
           child == PlaceOf(BlockOf(n), fsChildType, item)
           M1 == [Machine EXCEPT
                     !.nodes = [nodes EXCEPT ![child] = NewEntry(fsChildType),
                                             ![n].childItems = Append(nodes[n].childItems, child)]]
           M2 == startBuild(M1, child, JsString(item), nodes[n].depth + 1, c)
       IN  IF fsChildType \in {"DIRECTORY", "FILE"}
           THEN Commit([M2 EXCEPT !.calls[c].idx = next, !.calls[c].pc = pc,
                                  !.calls[c].kids = Append(calls[c].kids, M2.ret)])
           ELSE /\ calls' = [calls EXCEPT ![c].idx = next, ![c].pc = pc]
                /\ UNCHANGED <<nodes, hasher, requests, ser, timers>>
    /\ UNCHANGED <<fsys, registry, ncalls, faults>>

\* the continuation after `await Promise.all(childBuildPromises)`
BuildJoin(c) ==
    /\ calls[c].op = "Build" /\ calls[c].pc = "join"
    /\ AllDone(calls, calls[c].kids)
    /\ LET kids == calls[c].kids
           result == Len(kids) > 0 /\ \A k \in 1..Len(kids) : calls[kids[k]].val.b
       IN  /\ nodes' = [nodes EXCEPT ![calls[c].node].busy = FALSE]
           /\ calls' = Release([calls EXCEPT ![c].pc = "done", ![c].val = BoolVal(result),
                                             ![c].kids = << >>], kids)
    /\ UNCHANGED <<fsys, registry, hasher, ncalls, requests, ser, timers, faults>>

(***************************************************************************)
(* The serializer of hash requests (hashHelper.mjs)                        *)
(***************************************************************************)
\* HashRequest's constructor; listener is the call that registered for
\* 'hash_complete' with once().  phase follows the worker and its stream;
\* emfile, completions, status and digest record what was seen so far.
NewRequest(source, algorithm, listener) ==
    [source |-> source, algorithm |-> algorithm, pending |-> FALSE, dequeueCount |-> 0,
     listener |-> listener, phase |-> "created", data |-> EmptyString,
     emfile |-> 0, completions |-> 0, status |-> "", digest |-> Undefined]

\* InternalFileHasherSerializer._instance = null
NoSerializer(epoch) ==
    [exists |-> FALSE, epoch |-> epoch, requestList |-> << >>, pendingList |-> << >>,
     running |-> FALSE, step |-> 0, listening |-> FALSE]

\* new InternalFileHasherSerializer(), registered once for the self-destruct event
NewSerializer(epoch) ==
    [NoSerializer(epoch) EXCEPT !.exists = TRUE, !.listening = TRUE]

\* the IsActive getter
IsActive(sr) == Len(sr.requestList) > 0 \/ Len(sr.pendingList) > 0

\* processRequests without the test of _running
processRequestsUnguarded(M) ==
    IF Len(M.ser.requestList) = 0 THEN M
    ELSE LET r == Head(M.ser.requestList)
         IN  [M EXCEPT !.ser.running = TRUE, !.ser.step = r,
                       !.requests[r].dequeueCount = M.requests[r].dequeueCount + 1,
                       !.requests[r].pending = FALSE,
                       !.requests[r].phase = "opening"]

\* processRequests up to `await candidateWorker.Prepare()`: unless a step is
\* running, the head of the list is counted and a worker is made for it
processRequests(M) ==
    IF M.ser.running \/ Len(M.ser.requestList) = 0 THEN M
    ELSE LET r == Head(M.ser.requestList)
         IN  [M EXCEPT !.ser.running = TRUE, !.ser.step = r,
                       !.requests[r].dequeueCount = M.requests[r].dequeueCount + 1,
                       !.requests[r].pending = FALSE,
                       !.requests[r].phase = "opening"]

\* a submission that puts the request in front of those that wait
SubmitHashRequestFront(M, r) ==
    LET sr == IF M.ser.exists THEN M.ser ELSE NewSerializer(M.ser.epoch + 1)
        waiting == IF sr.running THEN Tail(sr.requestList) ELSE sr.requestList
        taken == IF sr.running THEN <<Head(sr.requestList)>> ELSE << >>
    IN  processRequests([M EXCEPT !.ser = [sr EXCEPT !.requestList = taken \o <<r>> \o waiting],
                                  !.requests[r].phase = "queued"])

\* FileHasherSerializer.SubmitHashRequest
SubmitHashRequest(M, r) ==
    LET sr == IF M.ser.exists THEN M.ser ELSE NewSerializer(M.ser.epoch + 1)
    IN  processRequests([M EXCEPT !.ser = [sr EXCEPT !.requestList = Append(sr.requestList, r)],
                                  !.requests[r].phase = "queued"])

\* an emit that reaches nobody
emitCompleteLost(M, r, status, digest) == M

\* an emit that reaches the client of the request twice
emitCompleteTwice(M, r, status, digest) ==
    LET c == M.requests[r].listener
        M1 == [M EXCEPT !.requests[r].completions = M.requests[r].completions + 2,
                        !.requests[r].status = status,
                        !.requests[r].digest = digest,
                        !.requests[r].listener = 0]
    IN  IF c = 0 THEN M1
        ELSE LET n == M1.calls[c].node
                 ns == [M1.nodes EXCEPT ![n].busy = FALSE, ![n].digest = digest]
             IN  Resolve([M1 EXCEPT !.nodes = ns], c, ResultVal(Source(ns, n), ns[n].digest))

\* request.emit('hash_complete', {status_code, digest}): the handler that
\* FileHashEntry.Compute registered with once() clears busy, stores the
\* digest and resolves
emitComplete(M, r, status, digest) ==
    LET c == M.requests[r].listener
        M1 == [M EXCEPT !.requests[r].completions = M.requests[r].completions + 1,
                        !.requests[r].status = status,
                        !.requests[r].digest = digest,
                        !.requests[r].listener = 0]
    IN  IF c = 0 THEN M1
        ELSE LET n == M1.calls[c].node
                 ns == [M1.nodes EXCEPT ![n].busy = FALSE, ![n].digest = digest]
             IN  Resolve([M1 EXCEPT !.nodes = ns], c, ResultVal(Source(ns, n), ns[n].digest))

\* what Prepare() can resolve with for request r: createHash decides on the
\* algorithm, createReadStream's 'open' or 'error' event on the rest
PrepareResults(r) ==
    IF createHashThrows(requests[r].algorithm) THEN {"STATUS_ERR_INVALID_ALGORITHM"}
    ELSE (CASE KindOf(fsys, requests[r].source) \in {"file", "dir"} -> {"STATUS_OK"}
            [] KindOf(fsys, requests[r].source) = "denied" -> {"STATUS_ERR_ACCESS_DENIED"}
            [] OTHER -> {"STATUS_ERR_OTHER"})
         \cup (IF faults.emfile > 0 THEN {"STATUS_TOO_MANY_FILES_OPEN"} ELSE {})
         \cup (IF faults.io > 0 THEN {"STATUS_ERR_OTHER"} ELSE {})

\* the faults the environment may still inject after Prepare() gave `result`
faultsAfter(r, result) ==
    IF createHashThrows(requests[r].algorithm) THEN faults
    ELSE IF result = "STATUS_TOO_MANY_FILES_OPEN" THEN [faults EXCEPT !.emfile = faults.emfile - 1]
    ELSE IF result = "STATUS_ERR_OTHER" /\ KindOf(fsys, requests[r].source) \in {"file", "dir", "denied"}
    THEN [faults EXCEPT !.io = faults.io - 1]
    ELSE faults

\* a step that takes the request off the list when its open is to be tried again
stepAfterPrepareDrop(M, r, prepareResult) ==
    LET retry == prepareResult = "STATUS_TOO_MANY_FILES_OPEN"
        shifted == Tail(M.ser.requestList)
        M1 == IF retry
              THEN [M EXCEPT !.ser.requestList = shifted,
                             !.requests[r].phase = "queued",
                             !.requests[r].emfile = M.requests[r].emfile + 1]
              ELSE IF prepareResult = "STATUS_OK"
              THEN [M EXCEPT !.ser.requestList = shifted,
                             !.ser.pendingList = Append(M.ser.pendingList, r),
                             !.requests[r].phase = "streaming"]
              ELSE emitComplete([M EXCEPT !.ser.requestList = shifted,
                                          !.requests[r].phase = "failed"],
                                r, prepareResult, Undefined)
    IN  [M1 EXCEPT !.ser.running = FALSE, !.ser.step = 0,
                   !.timers = IF Len(shifted) > 0 THEN Append(M1.timers, M1.ser.epoch) ELSE M1.timers]

\* a step that starts a worker for a request whose open failed for good
stepAfterPrepareStart(M, r, prepareResult) ==
    LET retry == prepareResult = "STATUS_TOO_MANY_FILES_OPEN"
        shifted == IF retry THEN M.ser.requestList ELSE Tail(M.ser.requestList)
        M1 == IF retry
              THEN [M EXCEPT !.requests[r].phase = "queued",
                             !.requests[r].emfile = M.requests[r].emfile + 1]
              ELSE IF prepareResult = "STATUS_OK"
              THEN [M EXCEPT !.ser.requestList = shifted,
                             !.ser.pendingList = Append(M.ser.pendingList, r),
                             !.requests[r].phase = "streaming"]
              ELSE emitComplete([M EXCEPT !.ser.requestList = shifted,
                                          !.ser.pendingList = Append(M.ser.pendingList, r),
                                          !.requests[r].phase = "failed"],
                                r, prepareResult, Undefined)
    IN  [M1 EXCEPT !.ser.running = FALSE, !.ser.step = 0,
                   !.timers = IF Len(shifted) > 0 THEN Append(M1.timers, M1.ser.epoch) ELSE M1.timers]

\* a step that moves the request to the back of the list when its open is to
\* be tried again
stepAfterPrepareRotate(M, r, prepareResult) ==
    LET retry == prepareResult = "STATUS_TOO_MANY_FILES_OPEN"
        shifted == IF retry THEN Append(Tail(M.ser.requestList), r) ELSE Tail(M.ser.requestList)
        M1 == IF retry
              THEN [M EXCEPT !.ser.requestList = shifted,
                             !.requests[r].phase = "queued",
                             !.requests[r].emfile = M.requests[r].emfile + 1]
              ELSE IF prepareResult = "STATUS_OK"
              THEN [M EXCEPT !.ser.requestList = shifted,
                             !.ser.pendingList = Append(M.ser.pendingList, r),
                             !.requests[r].phase = "streaming"]
              ELSE emitComplete([M EXCEPT !.ser.requestList = shifted,
                                          !.requests[r].phase = "failed"],
                                r, prepareResult, Undefined)
    IN  [M1 EXCEPT !.ser.running = FALSE, !.ser.step = 0,
                   !.timers = IF Len(shifted) > 0 THEN Append(M1.timers, M1.ser.epoch) ELSE M1.timers]

\* a step that schedules no further step when it ends
stepAfterPrepareNoTimer(M, r, prepareResult) ==
    LET retry == prepareResult = "STATUS_TOO_MANY_FILES_OPEN"
        shifted == IF retry THEN M.ser.requestList ELSE Tail(M.ser.requestList)
        M1 == IF retry
              THEN [M EXCEPT !.requests[r].phase = "queued",
                             !.requests[r].emfile = M.requests[r].emfile + 1]
              ELSE IF prepareResult = "STATUS_OK"
              THEN [M EXCEPT !.ser.requestList = shifted,
                             !.ser.pendingList = Append(M.ser.pendingList, r),
                             !.requests[r].phase = "streaming"]
              ELSE emitComplete([M EXCEPT !.ser.requestList = shifted,
                                          !.requests[r].phase = "failed"],
                                r, prepareResult, Undefined)
    IN  [M1 EXCEPT !.ser.running = FALSE, !.ser.step = 0]

\* a step that drops the active workers when an open fails
stepAfterPrepareAbort(M, r, prepareResult) ==
    LET retry == prepareResult = "STATUS_TOO_MANY_FILES_OPEN"
        shifted == IF retry THEN M.ser.requestList ELSE Tail(M.ser.requestList)
        M1 == IF retry
              THEN [M EXCEPT !.ser.pendingList = << >>,
                             !.requests[r].phase = "queued",
                             !.requests[r].emfile = M.requests[r].emfile + 1]
              ELSE IF prepareResult = "STATUS_OK"
              THEN [M EXCEPT !.ser.requestList = shifted,
                             !.ser.pendingList = Append(M.ser.pendingList, r),
                             !.requests[r].phase = "streaming"]
              ELSE emitComplete([M EXCEPT !.ser.requestList = shifted,
                                          !.ser.pendingList = << >>,
                                          !.requests[r].phase = "failed"],
                                r, prepareResult, Undefined)
    IN  [M1 EXCEPT !.ser.running = FALSE, !.ser.step = 0,
                   !.timers = IF Len(shifted) > 0 THEN Append(M1.timers, M1.ser.epoch) ELSE M1.timers]

\* processRequests after `await candidateWorker.Prepare()`
stepAfterPrepare(M, r, prepareResult) ==
    LET retry == prepareResult = "STATUS_TOO_MANY_FILES_OPEN"
        shifted == IF retry THEN M.ser.requestList ELSE Tail(M.ser.requestList)
        M1 == IF retry
              THEN [M EXCEPT !.requests[r].phase = "queued",
                             !.requests[r].emfile = M.requests[r].emfile + 1]
              ELSE IF prepareResult = "STATUS_OK"
              THEN [M EXCEPT !.ser.requestList = shifted,
                             !.ser.pendingList = Append(M.ser.pendingList, r),
                             !.requests[r].phase = "streaming"]
              ELSE emitComplete([M EXCEPT !.ser.requestList = shifted,
                                          !.requests[r].phase = "failed"],
                                r, prepareResult, Undefined)
    IN  [M1 EXCEPT !.ser.running = FALSE, !.ser.step = 0,
                   !.timers = IF Len(shifted) > 0 THEN Append(M1.timers, M1.ser.epoch) ELSE M1.timers]

PrepareDone ==
    /\ ser.exists /\ ser.running /\ ser.step # 0
    /\ LET r == ser.step
       IN  \E prepareResult \in PrepareResults(r) :
              /\ faults' = faultsAfter(r, prepareResult)
              /\ IF prepareResult # "STATUS_TOO_MANY_FILES_OPEN" /\ Head(ser.requestList) # r
                 THEN \* 'Unidentified hashing request.': the step raises and never ends
                      Commit([Machine EXCEPT !.ser.step = 0,
                                             !.ser.requestList = Tail(ser.requestList)])
                 ELSE Commit(stepAfterPrepare(Machine, r, prepareResult))
    /\ UNCHANGED <<fsys, registry, ncalls>>

\* a setTimeout callback runs processRequests on the instance it was bound to;
\* an instance that was destroyed has an empty list
TimerFire ==
    /\ Len(timers) > 0
    /\ LET M == [Machine EXCEPT !.timers = Tail(timers)]
       IN  Commit(IF ser.exists /\ ser.epoch = Head(timers) THEN processRequests(M) ELSE M)
    /\ UNCHANGED <<fsys, registry, ncalls, faults>>

\* _streamData: the chunk read from the file is fed to the worker's hash
StreamData(r) ==
    /\ requests[r].phase = "streaming"
    /\ KindOf(fsys, requests[r].source) = "file"
    /\ Len(fsys[requests[r].source].data) > 0
    /\ requests' = [requests EXCEPT ![r].phase = "read", ![r].data = fsys[requests[r].source].data]
    /\ UNCHANGED <<fsys, registry, nodes, hasher, calls, ncalls, ser, timers, faults>>

\* _streamEnd: the digest is taken and the request's client is notified
StreamEnd(r) ==
    /\ \/ requests[r].phase = "read"
       \/ /\ requests[r].phase = "streaming"
          /\ KindOf(fsys, requests[r].source) = "file"
          /\ Len(fsys[requests[r].source].data) = 0
    /\ Commit(emitComplete([Machine EXCEPT !.requests[r].phase = "ended"], r, "STATUS_OK",
                           toUpperCase(digestHex(requests[r].algorithm, requests[r].data))))
    /\ UNCHANGED <<fsys, registry, ncalls, faults>>

\* _streamError: an error after the stream was opened; the client is
\* notified and the error is raised again
StreamError(r) ==
    /\ requests[r].phase \in {"streaming", "read"}
    /\ \/ KindOf(fsys, requests[r].source) # "file" /\ faults' = faults
       \/ faults.io > 0 /\ faults' = [faults EXCEPT !.io = faults.io - 1]
    /\ Commit(emitComplete([Machine EXCEPT !.requests[r].phase = "errored"], r,
                           "STATUS_ERR_OTHER", Undefined))
    /\ UNCHANGED <<fsys, registry, ncalls>>

\* a teardown that does not ask whether the instance is active
destroySerializerActive(sr) ==
    IF sr.exists THEN NoSerializer(sr.epoch) ELSE sr

\* _destroySerializer
destroySerializer(sr) ==
    IF sr.exists /\ ~IsActive(sr) THEN NoSerializer(sr.epoch) ELSE sr

\* _streamClosed emits 'done'; _workerDone drops the worker, schedules a step
\* when requests are waiting and emits the self-destruct event when both
\* lists are empty
workerDone(M, r) ==
    LET isOther(w) == w # r
        sr == [M.ser EXCEPT !.pendingList = SelectSeq(M.ser.pendingList, isOther)]
    IN  IF Len(sr.requestList) > 0
        THEN [M EXCEPT !.ser = sr, !.timers = Append(M.timers, sr.epoch)]
        ELSE IF Len(sr.pendingList) <= 0 /\ sr.listening
        THEN [M EXCEPT !.ser = destroySerializer([sr EXCEPT !.listening = FALSE])]
        ELSE [M EXCEPT !.ser = sr]

StreamClosed(r) ==
    /\ requests[r].phase \in {"ended", "errored"}
    /\ Commit(workerDone([Machine EXCEPT !.requests[r].phase = "closed"], r))
    /\ UNCHANGED <<fsys, registry, ncalls, faults>>

(***************************************************************************)
(* Compute                                                                 *)
(***************************************************************************)
\* HashRequest's constructor raises a RangeError when `args.algorithm <= 0`
\* holds: the empty string converts to the number 0
requestThrows(alg) == alg = ""

\* FileHashEntry.Compute and DirectoryHashEntry.Compute up to the first
\* await.  A file creates its request and submits it; a directory calls
\* Compute on its children, directories first.  The id of the call is
\* returned in M.ret.
RECURSIVE startCompute(_, _, _, _)
RECURSIVE computeChildren(_, _, _, _, _)
startCompute(M, n, alg, parent) ==
    LET M0 == AddCall(M, [NewCall("Compute", n, parent, "done") EXCEPT !.alg = alg])
        c == M0.ret
        type == M.nodes[n].type
        M1 == [M0 EXCEPT !.nodes[n].busy = TRUE, !.nodes[n].digest = Undefined]
        r == Len(M.requests) + 1
    IN  IF ~(HasSource(M.nodes, n) /\ ~IsBusy(M.nodes, n))
        THEN [M0 EXCEPT !.calls[c].val =
                 ResultVal(Source(M.nodes, n), IF type = "FILE" THEN Undefined ELSE Null)]
        ELSE IF type = "FILE"
        THEN IF requestThrows(alg)
             THEN [M1 EXCEPT !.calls[c].pc = "thrown", !.calls[c].err = "RangeError"]
             ELSE [SubmitHashRequest(
                       [M1 EXCEPT !.calls[c].pc = "hashing",
                                  !.requests = Append(M.requests,
                                                      NewRequest(Source(M.nodes, n), alg, c))],
                       r) EXCEPT !.ret = c]
        ELSE [computeChildren([M1 EXCEPT !.calls[c].pc = "join"],
                              ChildrenOf(M.nodes, n), 1, alg, c) EXCEPT !.ret = c]

computeChildren(M, children, i, alg, c) ==
    IF i > Len(children) THEN M
    ELSE LET M1 == startCompute(M, children[i], alg, c)
         IN  computeChildren([M1 EXCEPT !.calls[c].kids = Append(M1.calls[c].kids, M1.ret)],
                             children, i + 1, alg, c)

\* a continuation whose catch branch leaves the entry busy
ComputeJoinStaysBusy(c) ==
    /\ calls[c].op = "Compute" /\ calls[c].pc = "join"
    /\ AllDone(calls, calls[c].kids)
    /\ LET n == calls[c].node
           kids == calls[c].kids
           results == [k \in 1..Len(kids) |-> calls[kids[k]].val]
           digest == combineResults(calls[c].alg, results)
       IN  IF createHashThrows(calls[c].alg)
           THEN /\ nodes' = nodes
                /\ calls' = Release([calls EXCEPT ![c].pc = "done", ![c].kids = << >>,
                                                  ![c].val = ResultVal(Source(nodes, n), Null),
                                                  ![c].err = "FSHashError"], kids)
           ELSE /\ nodes' = [nodes EXCEPT ![n].busy = FALSE, ![n].digest = digest]
                /\ calls' = Release([calls EXCEPT ![c].pc = "done", ![c].kids = << >>,
                                                  ![c].val = ResultVal(Source(nodes, n), digest)],
                                    kids)
    /\ UNCHANGED <<fsys, registry, hasher, ncalls, requests, ser, timers, faults>>

\* the continuation after `await Promise.all(childComputePromises)`: the
\* results are sorted and folded; when createHash raises the digest stays
\* undefined, the promise is resolved with a null digest and FSHashError is
\* raised
ComputeJoin(c) ==
    /\ calls[c].op = "Compute" /\ calls[c].pc = "join"
    /\ AllDone(calls, calls[c].kids)
    /\ LET n == calls[c].node
           kids == calls[c].kids
           results == [k \in 1..Len(kids) |-> calls[kids[k]].val]
           digest == combineResults(calls[c].alg, results)
       IN  IF createHashThrows(calls[c].alg)
           THEN /\ nodes' = [nodes EXCEPT ![n].busy = FALSE]
                /\ calls' = Release([calls EXCEPT ![c].pc = "done", ![c].kids = << >>,
                                                  ![c].val = ResultVal(Source(nodes, n), Null),
                                                  ![c].err = "FSHashError"], kids)
           ELSE /\ nodes' = [nodes EXCEPT ![n].busy = FALSE, ![n].digest = digest]
                /\ calls' = Release([calls EXCEPT ![c].pc = "done", ![c].kids = << >>,
                                                  ![c].val = ResultVal(Source(nodes, n), digest)],
                                    kids)
    /\ UNCHANGED <<fsys, registry, hasher, ncalls, requests, ser, timers, faults>>

(***************************************************************************)
(* Report                                                                  *)
(***************************************************************************)
\* the record FileSystemHashEntryBase.Report resolves with, and null
ReportItem(ns, n) ==
    [null |-> FALSE, type |-> ns[n].type, source |-> Source(ns, n),
     depth |-> ns[n].depth, digest |-> ns[n].digest]
NullItem ==
    [null |-> TRUE, type |-> "", source |-> EmptyString, depth |-> 0, digest |-> Null]

\* FileSystemHashEntryBase.Report: a built node that is not busy becomes busy
\* and gives its record, any other node gives null
baseReport(ns, n) ==
    IF HasSource(ns, n) /\ ~IsBusy(ns, n)
    THEN [nodes |-> [ns EXCEPT ![n].busy = TRUE], item |-> ReportItem(ns, n)]
    ELSE [nodes |-> ns, item |-> NullItem]

\* FileHashEntry.Report and DirectoryHashEntry.Report.  Nothing but resolved
\* promises is awaited, so the report of a subtree is made without any
\* input/output event in between.  array tells a directory's list from a
\* file's single record.
RECURSIVE nodeReport(_, _)
RECURSIVE reportOf(_, _, _)
RECURSIVE reportChildren(_, _, _, _)
RECURSIVE addReport(_, _, _, _)

\* the end of Report: busy is cleared and the report R is resolved
finishReport(R, n, array) ==
    [nodes |-> [R.nodes EXCEPT ![n].busy = FALSE], report |-> R.report, array |-> array]

\* Report after `await super.Report()` gave B: a file resolves its record,
\* a directory the null it got or its record followed by its children's
reportOf(B, n, type) ==
    IF type = "FILE" THEN finishReport([nodes |-> B.nodes, report |-> <<B.item>>], n, FALSE)
    ELSE IF B.item.null THEN finishReport([nodes |-> B.nodes, report |-> <<B.item>>], n, TRUE)
    ELSE finishReport(reportChildren(B.nodes, ChildrenOf(B.nodes, n), 1, <<B.item>>), n, TRUE)

nodeReport(ns, n) == reportOf(baseReport(ns, n), n, ns[n].type)

\* the merge of a child's report R: a list is concatenated, a record is
\* appended, null is left out
addReport(R, children, i, acc) ==
    reportChildren(R.nodes, children, i + 1,
                   acc \o (IF R.array \/ ~R.report[1].null THEN R.report ELSE << >>))

\* the loop over the children
reportChildren(ns, children, i, acc) ==
    IF i > Len(children) THEN [nodes |-> ns, report |-> acc]
    ELSE addReport(nodeReport(ns, children[i]), children, i, acc)

\* FSHasherInternal._translateFSType: "(D)", "(F)", "(B)", "(O)", "(I)"
\* (character codes: 28 and 30 the parentheses, 32.. the letters)
_translateFSType(type) ==
    CASE type = "DIRECTORY" -> <<28, 32, 30>>
      [] type = "FILE"      -> <<28, 34, 30>>
      [] type = "BATCH"     -> <<28, 36, 30>>
      [] type = "OTHER"     -> <<28, 38, 30>>
      [] OTHER              -> <<28, 40, 30>>

\* a digest inside a template literal: the text "undefined" (<<51, 53>>)
\* or "null" (<<55>>) for a digest that is absent
digestText(d) == IF d = Undefined THEN <<51, 53>> ELSE IF d = Null THEN <<55>> ELSE d

\* String.prototype.padStart with spaces (code 24)
padStart(str, length) ==
    [i \in 1..(IF length > Len(str) THEN length - Len(str) ELSE 0) |-> 24] \o str

\* one line of the CSV report: type ; > source ; digest \n
\* (codes 20, 22 and 26 for the semicolon, the angle and the line feed)
csvLine(item, padded) ==
    _translateFSType(item.type) \o <<20, 22>>
        \o (IF padded THEN padStart(item.source, Len(item.source) + item.depth) ELSE item.source)
        \o <<20>> \o digestText(item.digest) \o <<26>>

\* the CSV text FSHasherInternal.Report makes of a node's report
RECURSIVE csvReport(_, _)
csvReport(report, padded) ==
    IF Len(report) = 0 THEN EmptyString
    ELSE csvLine(Head(report), padded) \o csvReport(Tail(report), padded)

(***************************************************************************)
(* FindDuplicates: a Map is a sequence of <<key, value>> entries in        *)
(* insertion order                                                         *)
(***************************************************************************)
MapHas(map, key) == \E i \in 1..Len(map) : map[i].key = key

\* the loop of FindDuplicates over the report: a new digest is registered
\* with its source, a digest met before gets the source appended
RECURSIVE internalMap(_)
internalMap(report) ==
    IF Len(report) = 0 THEN << >>
    ELSE LET item == report[Len(report)]
             map == internalMap(SubSeq(report, 1, Len(report) - 1))
         IN  IF MapHas(map, item.digest)
             THEN [i \in 1..Len(map) |->
                      IF map[i].key = item.digest
                      THEN [map[i] EXCEPT !.value = Append(map[i].value, item.source)]
                      ELSE map[i]]
             ELSE Append(map, [key |-> item.digest, value |-> <<item.source>>])

\* a map from which the entries with a single source are not removed
duplicatesMapAll(report) == internalMap(report)

\* the entries of the internal map with more than one source
duplicatesMap(report) ==
    LET repeated(e) == Len(e.value) > 1
    IN  SelectSeq(internalMap(report), repeated)

(***************************************************************************)
(* The facade (FSHasherInternal, main.mjs).  `hasher` holds _algorithm and *)
(* _rootSource (0 for undefined, a node otherwise).                        *)
(***************************************************************************)
\* an algorithm argument: a string, or a value of another type
AlgString(name) == [t |-> "string", name |-> name]
AlgOther(t) == [t |-> t, name |-> ""]

_DEFAULT_ALGORITHM == "sha256"

\* a setter that falls back on the default for a name it does not know
_AlgorithmKnownOnly(algorithm) ==
    IF algorithm.t = "string" /\ algorithm.name \in HASH_ALGORITHMS
    THEN algorithm.name ELSE _DEFAULT_ALGORITHM

\* the default parameter value of Compute followed by the _Algorithm setter
_Algorithm(algorithm) ==
    LET arg == IF algorithm.t = "undefined" THEN AlgString(_DEFAULT_ALGORITHM) ELSE algorithm
    IN  IF arg.t = "string" THEN arg.name ELSE "sha256"

MapVal(map) == [NoVal EXCEPT !.kind = "map", !.map = map]


\* no operation is in flight: once _rootSource is cleared no entry made so
\* far can be reached any more
Quiescent ==
    \A c \in 1..Len(calls) : calls[c].parent = 0 /\ calls[c].pc \in {"done", "threw", "thrown"}

\* the number of calls of the client that are not settled
InFlight ==
    Cardinality({c \in 1..Len(calls) :
                    calls[c].parent = 0 /\ calls[c].pc \notin {"free", "done", "threw", "thrown"}})

\* the number of times the client has called Build, and the number of its
\* calls of Compute that were not turned away
Builds == Cardinality({c \in 1..Len(calls) : calls[c].op = "FSHasher.Build"})
Computes ==
    Cardinality({c \in 1..Len(calls) :
                    /\ calls[c].op = "FSHasher.Compute"
                    /\ ~(calls[c].pc = "done" /\ calls[c].val = PlainVal(EmptyString))})

\* the client makes at most MaxCalls calls, at most MaxOverlaps of them
\* while an operation is in flight; it calls Build at most MaxBuilds times
\* and only while at most MaxInFlightAtBuild of its calls are not settled,
\* and at most MaxComputes of its calls of Compute are not turned away
Overlaps == Cardinality({c \in 1..Len(calls) : calls[c].overlap})
ClientMay == ncalls < MaxCalls /\ (Quiescent \/ Overlaps < MaxOverlaps)
ClientCall(op, node, pc) ==
    [NewCall(op, node, 0, pc) EXCEPT !.overlap = ~Quiescent, !.wrapper = 1]

\* FSHasherInternal.Build up to `await _getFileSystemType(src)`
FSHasherBuild(source) ==
    /\ ClientMay
    /\ InFlight <= MaxInFlightAtBuild
    /\ Builds < MaxBuilds
    /\ ncalls' = ncalls + 1
    /\ IF source.truthy /\ source.t \notin {"string", "array"}
       THEN /\ calls' = Append(calls, [ClientCall("FSHasher.Build", 0, "threw")
                                          EXCEPT !.src = source, !.err = "TypeError"])
            /\ UNCHANGED <<hasher, nodes>>
       ELSE /\ calls' = Append(calls, [ClientCall("FSHasher.Build", 0, "probe")
                                          EXCEPT !.src = source])
            /\ hasher' = [hasher EXCEPT !.rootSource = 0]
            /\ nodes' = IF Quiescent THEN << >> ELSE nodes
    /\ UNCHANGED <<fsys, registry, requests, ser, timers, faults>>

\* the root entry is made for the type found and its Build is called
FSHasherBuildProbe(c) ==
    /\ calls[c].op = "FSHasher.Build" /\ calls[c].pc = "probe"
    /\ LET fsType == _getFileSystemType(fsys, calls[c].src)
           root == PlaceOf(Len(nodes), fsType, calls[c].src.s)
           M1 == [Machine EXCEPT !.nodes = [nodes \o NewBlock EXCEPT ![root] = NewEntry(fsType)],
                                 !.hasher.rootSource = root]
           M2 == startBuild(M1, root, calls[c].src, 0, c)
       IN  /\ fsType # "PENDING"
           /\ IF fsType \in {"DIRECTORY", "FILE", "BATCH"}
              THEN IF M2.calls[M2.ret].pc = "threw"
                   THEN Commit([M2 EXCEPT !.calls[c].pc = "thrown"])
                   ELSE Commit([M2 EXCEPT !.calls[c].pc = "await", !.calls[c].kids = <<M2.ret>>])
              ELSE Commit(Resolve(Machine, c, BoolVal(FALSE)))
    /\ UNCHANGED <<fsys, registry, ncalls, faults>>

\* the continuation after `await this._rootSource.Build(src, 0)`
FSHasherBuildDone(c) ==
    /\ calls[c].op = "FSHasher.Build" /\ calls[c].pc = "await"
    /\ AllDone(calls, calls[c].kids)
    /\ calls' = Release([calls EXCEPT ![c].pc = "done", ![c].kids = << >>,
                                      ![c].val = BoolVal(calls[calls[c].kids[1]].val.b)],
                        calls[c].kids)
    /\ UNCHANGED <<fsys, registry, nodes, hasher, ncalls, requests, ser, timers, faults>>

\* a guard that does not look at the busy flags
RootReadyIgnoresBusy == hasher.rootSource # 0

\* the guard of Compute, Report and FindDuplicates
RootReady == hasher.rootSource # 0 /\ ~IsBusy(nodes, hasher.rootSource)

\* FSHasherInternal.Compute up to `await this._rootSource.Compute(...)`
FSHasherCompute(algorithm) ==
    /\ ClientMay
    /\ Computes < MaxComputes
    /\ ncalls' = ncalls + 1
    /\ IF RootReady
       THEN LET M0 == AddCall([Machine EXCEPT !.hasher.algorithm = _Algorithm(algorithm)],
                              ClientCall("FSHasher.Compute", 0, "await"))
                M1 == startCompute(M0, hasher.rootSource, M0.hasher.algorithm, M0.ret)
            IN  Commit([M1 EXCEPT !.calls[M0.ret].kids = <<M1.ret>>])
       ELSE Commit(AddCall(Machine, [ClientCall("FSHasher.Compute", 0, "done")
                                        EXCEPT !.val = PlainVal(EmptyString)]))
    /\ UNCHANGED <<fsys, registry, faults>>

\* the continuation after the await: the digest of the result is handed out
FSHasherComputeDone(c) ==
    /\ calls[c].op = "FSHasher.Compute" /\ calls[c].pc = "await"
    /\ AllDone(calls, calls[c].kids)
    /\ calls' = Release([calls EXCEPT ![c].pc = "done", ![c].kids = << >>,
                                      ![c].val = PlainVal(calls[calls[c].kids[1]].val.digest)],
                        calls[c].kids)
    /\ UNCHANGED <<fsys, registry, nodes, hasher, ncalls, requests, ser, timers, faults>>

\* FSHasherInternal.Report and FindDuplicates up to the first await inside
\* this._rootSource.Report(): the base class has marked the root busy
rootReportStart(op) ==
    /\ ClientMay
    /\ ncalls' = ncalls + 1
    /\ IF RootReady
       THEN LET B == baseReport(nodes, hasher.rootSource)
            IN  /\ nodes' = B.nodes
                /\ calls' = Append(calls, [ClientCall(op, hasher.rootSource, "report")
                                              EXCEPT !.val.report = <<B.item>>])
       ELSE /\ nodes' = nodes
            /\ calls' = Append(calls, [ClientCall(op, 0, "done")
                                          EXCEPT !.val = PlainVal(EmptyString)])
    /\ UNCHANGED <<fsys, registry, hasher, requests, ser, timers, faults>>

\* the rest of this._rootSource.Report()
rootReport(c) ==
    reportOf([nodes |-> nodes, item |-> calls[c].val.report[1]],
             calls[c].node, nodes[calls[c].node].type)

\* a report with a null in it makes the loop over its items raise
HasNull(report) == \E i \in 1..Len(report) : report[i].null

FSHasherReport == rootReportStart("FSHasher.Report")

\* the report R is rendered as CSV text, padded for a directory or batch root
reportDone(c, R) ==
    /\ nodes' = R.nodes
    /\ calls' = IF HasNull(R.report)
                THEN [calls EXCEPT ![c].pc = "thrown", ![c].err = "TypeError",
                                   ![c].val = NoVal, ![c].node = 0]
                ELSE [calls EXCEPT ![c].pc = "done", ![c].node = 0,
                         ![c].val = PlainVal(csvReport(R.report,
                                                       nodes[calls[c].node].type # "FILE"))]

FSHasherReportDone(c) ==
    /\ calls[c].op = "FSHasher.Report" /\ calls[c].pc = "report"
    /\ reportDone(c, rootReport(c))
    /\ UNCHANGED <<fsys, registry, hasher, ncalls, requests, ser, timers, faults>>

FSHasherFindDuplicates == rootReportStart("FSHasher.FindDuplicates")

\* the report R is iterated; a file's report is one record and not iterable
findDuplicatesDone(c, R) ==
    /\ nodes' = R.nodes
    /\ calls' = IF HasNull(R.report) \/ nodes[calls[c].node].type = "FILE"
                THEN [calls EXCEPT ![c].pc = "thrown", ![c].err = "TypeError",
                                   ![c].val = NoVal, ![c].node = 0]
                ELSE [calls EXCEPT ![c].pc = "done", ![c].node = 0,
                                   ![c].val = [MapVal(duplicatesMap(R.report))
                                                  EXCEPT !.report = R.report]]

FSHasherFindDuplicatesDone(c) ==
    /\ calls[c].op = "FSHasher.FindDuplicates" /\ calls[c].pc = "report"
    /\ findDuplicatesDone(c, rootReport(c))
    /\ UNCHANGED <<fsys, registry, hasher, ncalls, requests, ser, timers, faults>>

(***************************************************************************)
(* The file systems the hasher is run on, and the arguments of the client  *)
(***************************************************************************)
\* a file system: the root directory with the entries 4, 6 and 8, the
\* first of which may itself hold an entry 4
MkFs(root, e4, e44, e6, e8) ==
    [p \in AllPaths |->
        CASE p = RootPath -> root
          [] p = join(RootPath, 4) -> e4
          [] p = join(RootPath, 6) -> e6
          [] p = join(RootPath, 8) -> e8
          [] OTHER -> e44]

OtherEntry == [kind |-> "other", data |-> << >>, order |-> << >>]
DeniedEntry == [kind |-> "denied", data |-> << >>, order |-> << >>]

FsShapes ==
    { MkFs(DirEntry, DirEntry, FileEntry(<<12>>), DirEntry, FileEntry(<<10>>)),
      MkFs(DirEntry, FileEntry(<<10>>), NoEntry, FileEntry(<<10>>), NoEntry),
      MkFs(DirEntry, FileEntry(<<10>>), NoEntry, DeniedEntry, NoEntry),
      MkFs(DirEntry, NoEntry, NoEntry, NoEntry, OtherEntry),
      MkFs(DirEntry, NoEntry, NoEntry, NoEntry, NoEntry),
      MkFs(FileEntry(<<10>>), NoEntry, NoEntry, NoEntry, NoEntry) }

\* readdir lists the entries of a directory in an order of the file
\* system's choosing, the same each time while the directory is unchanged
Ordered(f, rootOrder) ==
    [p \in AllPaths |->
        IF f[p].kind # "dir" THEN f[p]
        ELSE IF p = RootPath THEN [f[p] EXCEPT !.order = rootOrder]
        ELSE [f[p] EXCEPT !.order = CHOOSE o \in Listings(EntriesOf(f, p)) : TRUE]]

FsConfigs ==
    UNION { {Ordered(f, o) : o \in Listings(EntriesOf(f, RootPath))} : f \in FsShapes }

BuildArgs ==
    { JsString(RootPath),
      JsArray(<<join(RootPath, 4), join(RootPath, 6)>>),
      JsArray(<< >>),
      JsUndefined,
      JsOther("number", FALSE),
      JsOther("number", TRUE) }

ComputeArgs == { AlgString("md5"), AlgString("bogus"), AlgOther("undefined") }

Init ==
    /\ fsys \in FsConfigs
    /\ nodes = << >>
    /\ hasher = [algorithm |-> "sha256", rootSource |-> 0]
    /\ calls = << >>
    /\ ncalls = 0
    /\ requests = << >>
    /\ ser = NoSerializer(0)
    /\ timers = << >>
    /\ faults = [emfile |-> MaxEmfile, io |-> MaxIoFaults]
    /\ registry = {1}

Next ==
    \/ \E source \in BuildArgs : FSHasherBuild(source)
    \/ \E algorithm \in ComputeArgs : FSHasherCompute(algorithm)
    \/ FSHasherReport
    \/ FSHasherFindDuplicates
    \/ \E c \in 1..Len(calls) :
          \/ FSHasherBuildProbe(c)
          \/ FSHasherBuildDone(c)
          \/ FSHasherComputeDone(c)
          \/ FSHasherReportDone(c)
          \/ FSHasherFindDuplicatesDone(c)
          \/ BuildProbe(c)
          \/ BuildReaddir(c)
          \/ BuildChildProbe(c)
          \/ BuildJoin(c)
          \/ ComputeJoin(c)
    \/ PrepareDone
    \/ TimerFire
    \/ \E r \in 1..Len(requests) :
          \/ StreamData(r)
          \/ StreamEnd(r)
          \/ StreamError(r)
          \/ StreamClosed(r)

Spec == Init /\ [][Next]_vars

(***************************************************************************)
(* A client of the entry classes: it makes one entry, builds it and calls  *)
(* Compute and Report on it, without waiting for earlier calls.            *)
(***************************************************************************)
\* the entries the client holds: those it called Build on
Held == {calls[c].node : c \in {d \in 1..Len(calls) : calls[d].op = "Build" /\ calls[d].parent = 0}}

\* new FileHashEntry(), new DirectoryHashEntry() or new BatchHashEntry(),
\* followed by Build(source, depth)
NodeBuild(type, source, depth) ==
    /\ ncalls < MaxNodeCalls
    /\ Held = {}
    /\ ncalls' = ncalls + 1
    /\ LET n == PlaceOf(Len(nodes), type, source.s)
       IN  Commit(startBuild([Machine EXCEPT !.nodes = [nodes \o NewBlock EXCEPT ![n] = NewEntry(type)]],
                             n, source, depth, 0))
    /\ UNCHANGED <<fsys, registry, faults>>

\* Build(source, 0) once more on an entry that is busy
NodeBuildAgain(n) ==
    /\ ncalls < MaxNodeCalls
    /\ nodes[n].busy
    /\ ncalls' = ncalls + 1
    /\ Commit(startBuild(Machine, n, nodes[n].source, 0, 0))
    /\ UNCHANGED <<fsys, registry, faults>>

\* Compute(algorithm) on an entry
NodeCompute(n, algorithm) ==
    /\ ncalls < MaxNodeCalls
    /\ ncalls' = ncalls + 1
    /\ Commit(startCompute(Machine, n, algorithm, 0))
    /\ UNCHANGED <<fsys, registry, faults>>

\* Report() on an entry resolves R
nodeReportDone(n, R) ==
    /\ nodes' = R.nodes
    /\ calls' = Append(calls, [NewCall("Report", n, 0, "done")
                                  EXCEPT !.val = [NoVal EXCEPT !.kind = "report",
                                                               !.b = R.array,
                                                               !.report = R.report]])

NodeReport(n) ==
    /\ ncalls < MaxNodeCalls
    /\ ncalls' = ncalls + 1
    /\ nodeReportDone(n, nodeReport(nodes, n))
    /\ UNCHANGED <<fsys, registry, hasher, requests, ser, timers, faults>>

NodeFsConfigs == {f \in FsConfigs : KindOf(f, join(RootPath, 4)) = "file" /\ KindOf(f, join(RootPath, 6)) = "denied"}

NodeBuildArgs ==
    { <<"DIRECTORY", JsString(RootPath), 0>>,
      <<"FILE", JsString(join(RootPath, 4)), 0>>,
      <<"BATCH", JsArray(<<join(RootPath, 4)>>), 0>>,
      <<"BATCH", JsArray(<<join(RootPath, 4)>>), 1>> }

NodeComputeArgs == {"md5", "bogus", ""}

InitNode ==
    /\ fsys \in NodeFsConfigs
    /\ nodes = << >>
    /\ hasher = [algorithm |-> "sha256", rootSource |-> 0]
    /\ calls = << >>
    /\ ncalls = 0
    /\ requests = << >>
    /\ ser = NoSerializer(0)
    /\ timers = << >>
    /\ faults = [emfile |-> 0, io |-> MaxIoFaults]
    /\ registry = {}

NextNode ==
    \/ \E arg \in NodeBuildArgs : NodeBuild(arg[1], arg[2], arg[3])
    \/ \E n \in Held :
          \/ NodeBuildAgain(n)
          \/ \E algorithm \in NodeComputeArgs : NodeCompute(n, algorithm)
          \/ NodeReport(n)
    \/ \E c \in 1..Len(calls) :
          \/ BuildProbe(c)
          \/ BuildReaddir(c)
          \/ BuildChildProbe(c)
          \/ BuildJoin(c)
          \/ ComputeJoin(c)
    \/ PrepareDone
    \/ TimerFire
    \/ \E r \in 1..Len(requests) :
          \/ StreamData(r)
          \/ StreamEnd(r)
          \/ StreamError(r)
          \/ StreamClosed(r)

SpecNode == InitNode /\ [][NextNode]_vars

(***************************************************************************)
(* A client of the serializer: it makes requests, submits them and         *)
(* withdraws them.                                                         *)
(***************************************************************************)
\* FileHasherSerializer.RecindHashRequest: the request is looked up in the
\* list; the serializer is destroyed when it is not active.  r = 0 is a
\* request that is no longer on record.
RecindHashRequest(M, r) ==
    LET found == /\ M.ser.exists
                 /\ \E i \in 1..Len(M.ser.requestList) :
                       M.ser.requestList[i] = r /\ ~M.requests[r].pending
    IN  AddCall([M EXCEPT !.ser = destroySerializer(M.ser)],
                [NewCall("RecindHashRequest", 0, 0, "done") EXCEPT !.idx = r, !.val = BoolVal(found)])

\* new HashRequest({source, algorithm}) followed by SubmitHashRequest
SerSubmit(source, algorithm) ==
    /\ ncalls < MaxSerCalls
    /\ ncalls' = ncalls + 1
    /\ Commit(SubmitHashRequest([Machine EXCEPT !.requests = Append(requests,
                                                                     NewRequest(source, algorithm, 0))],
                                Len(requests) + 1))
    /\ UNCHANGED <<fsys, registry, faults>>

SerRecind(r) ==
    /\ ncalls < MaxSerCalls
    /\ ncalls' = ncalls + 1
    /\ Commit(RecindHashRequest(Machine, r))
    /\ UNCHANGED <<fsys, registry, faults>>

SerSources == {join(RootPath, 4), join(RootPath, 6), join(RootPath, 8)}
SerAlgorithms == {"md5", "bogus"}

InitSer ==
    /\ fsys = CHOOSE f \in FsConfigs :
                  KindOf(f, join(RootPath, 4)) = "file" /\ KindOf(f, join(RootPath, 6)) = "file"
    /\ nodes = << >>
    /\ hasher = [algorithm |-> "sha256", rootSource |-> 0]
    /\ calls = << >>
    /\ ncalls = 0
    /\ requests = << >>
    /\ ser = NoSerializer(0)
    /\ timers = << >>
    /\ faults = [emfile |-> MaxRetries, io |-> 0]
    /\ registry = {}

NextSer ==
    \/ \E source \in SerSources, algorithm \in SerAlgorithms : SerSubmit(source, algorithm)
    \/ \E r \in 0..Len(requests) : SerRecind(r)
    \/ PrepareDone
    \/ TimerFire
    \/ \E r \in 1..Len(requests) :
          \/ StreamData(r)
          \/ StreamEnd(r)
          \/ StreamClosed(r)

\* the event loop runs every callback that is due, and the stream of a
\* regular file delivers its data, its end and its close
SerFairness ==
    /\ WF_vars(PrepareDone)
    /\ WF_vars(TimerFire)
    /\ \A r \in 1..MaxSerCalls :
          /\ WF_vars(r <= Len(requests) /\ StreamData(r))
          /\ WF_vars(r <= Len(requests) /\ StreamEnd(r))
          /\ WF_vars(r <= Len(requests) /\ StreamClosed(r))

SpecSer == InitSer /\ [][NextSer]_vars /\ SerFairness

(***************************************************************************)
(* A client of the serializer whose requests may fail to open: for a file  *)
(* that may not be read, for a path that does not exist, with an algorithm *)
(* createHash does not know, or by a fault of the file system.             *)
(***************************************************************************)
OpenSources == {join(RootPath, 4), join(RootPath, 6), join(RootPath, 8)}

InitOpen ==
    /\ fsys = CHOOSE f \in NodeFsConfigs : TRUE
    /\ nodes = << >>
    /\ hasher = [algorithm |-> "sha256", rootSource |-> 0]
    /\ calls = << >>
    /\ ncalls = 0
    /\ requests = << >>
    /\ ser = NoSerializer(0)
    /\ timers = << >>
    /\ faults = [emfile |-> MaxEmfile, io |-> MaxIoFaults]
    /\ registry = {}

NextOpen ==
    \/ \E source \in OpenSources, algorithm \in SerAlgorithms : SerSubmit(source, algorithm)
    \/ \E r \in 0..Len(requests) : SerRecind(r)
    \/ PrepareDone
    \/ TimerFire
    \/ \E r \in 1..Len(requests) :
          \/ StreamData(r)
          \/ StreamEnd(r)
          \/ StreamError(r)
          \/ StreamClosed(r)

SpecOpen == InitOpen /\ [][NextOpen]_vars

\* the event loop runs every callback that is due; a stream that was opened
\* delivers its data, then ends or fails, and is closed
OpenFairness ==
    /\ WF_vars(PrepareDone)
    /\ WF_vars(TimerFire)
    /\ \A r \in 1..MaxSerCalls :
          /\ WF_vars(r <= Len(requests) /\ StreamData(r))
          /\ WF_vars(r <= Len(requests) /\ (StreamEnd(r) \/ StreamError(r)))
          /\ WF_vars(r <= Len(requests) /\ StreamClosed(r))

SpecLive == InitOpen /\ [][NextOpen]_vars /\ OpenFairness

(***************************************************************************)
(* The public class FSHasher.  Each object is a key of _internalFSHashObjs *)
(* from its construction until destroy() is called on it.  The client      *)
(* holds two of them; it builds and computes with the first only, so the   *)
(* FSHasherInternal of the second stays as constructed.                    *)
(***************************************************************************)
Wrappers == {1, 2}

\* _PackageInfo.PLUGIN_VER
PLUGIN_VER == <<49>>

\* a lookup that finds every object
RegisteredAlways(w) == TRUE

\* `const fshasher = _internalFSHashObjs.get(this); if (fshasher)`
Registered(w) == w \in registry

\* _internalFSHashObjs.get(this)
Internal(w) == IF w = 1 THEN hasher ELSE [algorithm |-> _DEFAULT_ALGORITHM, rootSource |-> 0]

\* throw new ReferenceError(`This instance of 'FSHasher' is no longer registered.`)
notRegistered(op, w) ==
    /\ ClientMay
    /\ ncalls' = ncalls + 1
    /\ calls' = Append(calls, [ClientCall(op, 0, "threw")
                                  EXCEPT !.err = "ReferenceError", !.wrapper = w])
    /\ UNCHANGED <<fsys, nodes, hasher, requests, ser, timers, faults, registry>>

\* a getter of FSHasherInternal returns v, or the algorithm alg
getterReturns(op, w, v, alg) ==
    /\ ClientMay
    /\ ncalls' = ncalls + 1
    /\ calls' = Append(calls, [ClientCall(op, 0, "done")
                                  EXCEPT !.val = v, !.alg = alg, !.wrapper = w])
    /\ UNCHANGED <<fsys, nodes, hasher, requests, ser, timers, faults, registry>>

\* FSHasher.destroy
destroy(w) ==
    /\ registry' = IF w \in registry THEN registry \ {w} ELSE registry
    /\ UNCHANGED <<fsys, nodes, hasher, calls, ncalls, requests, ser, timers, faults>>

\* the getters of FSHasher
GetVersion(w) ==
    IF Registered(w)
    THEN getterReturns("FSHasher.Version", w, PlainVal(PLUGIN_VER), "")
    ELSE notRegistered("FSHasher.Version", w)

GetIsBusy(w) ==
    IF Registered(w)
    THEN getterReturns("FSHasher.IsBusy", w,
                       BoolVal(Internal(w).rootSource # 0 /\ IsBusy(nodes, Internal(w).rootSource)),
                       "")
    ELSE notRegistered("FSHasher.IsBusy", w)

GetAlgorithm(w) ==
    IF Registered(w)
    THEN getterReturns("FSHasher.Algorithm", w, NoVal, Internal(w).algorithm)
    ELSE notRegistered("FSHasher.Algorithm", w)

GetSource(w) ==
    IF Registered(w)
    THEN getterReturns("FSHasher.Source", w,
                       PlainVal(IF Internal(w).rootSource = 0 THEN EmptyString
                                ELSE Source(nodes, Internal(w).rootSource)),
                       "")
    ELSE notRegistered("FSHasher.Source", w)

\* the methods of FSHasher
WrapperBuild(w, source) ==
    IF Registered(w)
    THEN w = 1 /\ FSHasherBuild(source)
    ELSE notRegistered("FSHasher.Build", w)

WrapperCompute(w, algorithm) ==
    IF Registered(w)
    THEN w = 1 /\ FSHasherCompute(algorithm)
    ELSE notRegistered("FSHasher.Compute", w)

WrapperReport(w) ==
    IF Registered(w)
    THEN w = 1 /\ FSHasherReport
    ELSE notRegistered("FSHasher.Report", w)

WrapperFindDuplicates(w) ==
    IF Registered(w)
    THEN w = 1 /\ FSHasherFindDuplicates
    ELSE notRegistered("FSHasher.FindDuplicates", w)

\* an empty directory, or a file
RegFsConfigs == {f \in FsConfigs : KindOf(f, join(RootPath, 4)) = "none" /\ KindOf(f, join(RootPath, 8)) = "none"}

InitReg ==
    /\ fsys \in RegFsConfigs
    /\ nodes = << >>
    /\ hasher = [algorithm |-> "sha256", rootSource |-> 0]
    /\ calls = << >>
    /\ ncalls = 0
    /\ requests = << >>
    /\ ser = NoSerializer(0)
    /\ timers = << >>
    /\ faults = [emfile |-> 0, io |-> 0]
    /\ registry = Wrappers

NextReg ==
    \/ \E w \in Wrappers :
          \/ destroy(w)
          \/ GetVersion(w)
          \/ GetIsBusy(w)
          \/ GetAlgorithm(w)
          \/ GetSource(w)
          \/ WrapperBuild(w, JsString(RootPath))
          \/ WrapperCompute(w, AlgString("md5"))
          \/ WrapperReport(w)
          \/ WrapperFindDuplicates(w)
    \/ \E c \in 1..Len(calls) :
          \/ FSHasherBuildProbe(c)
          \/ FSHasherBuildDone(c)
          \/ FSHasherComputeDone(c)
          \/ FSHasherReportDone(c)
          \/ FSHasherFindDuplicatesDone(c)
          \/ BuildProbe(c)
          \/ BuildReaddir(c)
          \/ ComputeJoin(c)
    \/ PrepareDone
    \/ \E r \in 1..Len(requests) :
          \/ StreamData(r)
          \/ StreamEnd(r)
          \/ StreamClosed(r)

SpecReg == InitReg /\ [][NextReg]_vars

(***************************************************************************)
(* A client of one facade that calls Build again and again without waiting *)
(* for its earlier calls of Build.                                         *)
(***************************************************************************)
\* FSHasherInternal.Build up to `await _getFileSystemType(src)`, called
\* whatever the earlier calls are doing, at most MaxOverlappingBuilds times
FSHasherBuildOverlapping(source) ==
    /\ ncalls < MaxOverlappingBuilds
    /\ ncalls' = ncalls + 1
    /\ calls' = Append(calls, [ClientCall("FSHasher.Build", 0, "probe") EXCEPT !.src = source])
    /\ hasher' = [hasher EXCEPT !.rootSource = 0]
    /\ nodes' = IF Quiescent THEN << >> ELSE nodes
    /\ UNCHANGED <<fsys, registry, requests, ser, timers, faults>>

\* a directory that holds two files
BuildsFsConfigs == {f \in FsConfigs : KindOf(f, join(RootPath, 4)) = "file" /\ KindOf(f, join(RootPath, 6)) = "file"}

BuildsArgs == { JsString(RootPath), JsString(join(RootPath, 4)) }

InitBuilds ==
    /\ fsys \in BuildsFsConfigs
    /\ nodes = << >>
    /\ hasher = [algorithm |-> "sha256", rootSource |-> 0]
    /\ calls = << >>
    /\ ncalls = 0
    /\ requests = << >>
    /\ ser = NoSerializer(0)
    /\ timers = << >>
    /\ faults = [emfile |-> 0, io |-> 0]
    /\ registry = {1}

NextBuilds ==
    \/ \E source \in BuildsArgs : FSHasherBuildOverlapping(source)
    \/ \E c \in 1..Len(calls) :
          \/ FSHasherBuildProbe(c)
          \/ FSHasherBuildDone(c)
          \/ BuildProbe(c)
          \/ BuildReaddir(c)
          \/ BuildChildProbe(c)
          \/ BuildJoin(c)

SpecBuilds == InitBuilds /\ [][NextBuilds]_vars

(***************************************************************************)
(* A client of the facade that calls Build on a path or a list of paths    *)
(* while other programs remove entries of the file system or replace a     *)
(* file by a directory.                                                    *)
(***************************************************************************)
\* path p is q or lies beneath it
IsBeneath(q, p) == Len(q) <= Len(p) /\ SubSeq(p, 1, Len(q)) = q

\* the directory that holds path p
DirOf(p) == SubSeq(p, 1, Len(p) - 1)

\* a listing without the name n
Without(order, n) == SelectSeq(order, LAMBDA x : x # n)

\* another program removes path p and all beneath it
FsRemove(p) ==
    /\ KindOf(fsys, p) # "none"
    /\ fsys' = [q \in AllPaths |->
                   IF IsBeneath(p, q) THEN NoEntry
                   ELSE IF Len(p) > 1 /\ q = DirOf(p)
                   THEN [fsys[q] EXCEPT !.order = Without(fsys[q].order, p[Len(p)])]
                   ELSE fsys[q]]
    /\ UNCHANGED <<registry, nodes, hasher, calls, ncalls, requests, ser, timers, faults>>

\* another program replaces the file at path p by an empty directory
FsReplace(p) ==
    /\ KindOf(fsys, p) = "file"
    /\ fsys' = [fsys EXCEPT ![p] = DirEntry]
    /\ UNCHANGED <<registry, nodes, hasher, calls, ncalls, requests, ser, timers, faults>>

ChangeBuildArgs == { JsString(RootPath), JsArray(<<join(RootPath, 4), join(RootPath, 6)>>) }

InitChange ==
    /\ fsys \in FsConfigs
    /\ nodes = << >>
    /\ hasher = [algorithm |-> "sha256", rootSource |-> 0]
    /\ calls = << >>
    /\ ncalls = 0
    /\ requests = << >>
    /\ ser = NoSerializer(0)
    /\ timers = << >>
    /\ faults = [emfile |-> 0, io |-> 0]
    /\ registry = {1}

NextChange ==
    \/ \E source \in ChangeBuildArgs : FSHasherBuild(source)
    \/ \E p \in AllPaths :
          \/ FsRemove(p)
          \/ FsReplace(p)
    \/ \E c \in 1..Len(calls) :
          \/ FSHasherBuildProbe(c)
          \/ FSHasherBuildDone(c)
          \/ BuildProbe(c)
          \/ BuildReaddir(c)
          \/ BuildChildProbe(c)
          \/ BuildJoin(c)

SpecChange == InitChange /\ [][NextChange]_vars

(***************************************************************************)
(* Properties of the combination of child digests                         *)
(***************************************************************************)
\* the directory and batch entries, and those on which nothing is in flight
DirNodes == {n \in 1..Len(nodes) : nodes[n].type \in {"DIRECTORY", "BATCH"}}
Settled(n) == ~IsBusy(nodes, n)

\* the results of the children of n in the order Compute collects them
ChildResults(n) ==
    LET ch == ChildrenOf(nodes, n)
    IN  [k \in 1..Len(ch) |-> ResultVal(Source(nodes, ch[k]), nodes[ch[k]].digest)]

\* the present digests among results, in their order
PresentDigests(results) ==
    LET has(r) == existy(r.digest)
        kept == SelectSeq(results, has)
    IN  [k \in 1..Len(kept) |-> kept[k].digest]

Perms(s) == {[i \in 1..Len(s) |-> s[f[i]]] : f \in Listings(1..Len(s))}

RECURSIVE Concat(_)
Concat(ds) == IF Len(ds) = 0 THEN EmptyString ELSE Head(ds) \o Concat(Tail(ds))

Ascending(ds) == \A i, j \in 1..Len(ds) : i < j => ~StrLess(ds[j], ds[i])

\* C1 (as stated): the digest of a directory or batch entry is a function of
\* the multiset of its children's digests, absent ones included: combining
\* the children's results in any enumeration order gives the entry's digest.
C1_OrderIndependent ==
    \A n \in DirNodes :
        Settled(n) =>
            \A p \in Perms(ChildResults(n)) :
                combineResults(hasher.algorithm, p) = nodes[n].digest

C3_PassThrough ==
    \A n \in DirNodes :
        LET present == PresentDigests(ChildResults(n))
        IN  (Settled(n) /\ Len(present) = 1) => nodes[n].digest = present[1]

\* a batch whose only digest-bearing child is a directory whose only
\* digest-bearing child is a file: all three have the file's digest
C3_Witness ==
    \E n \in DirNodes :
        /\ nodes[n].type = "BATCH" /\ Settled(n)
        /\ Len(PresentDigests(ChildResults(n))) = 1
        /\ \E i \in 1..Len(nodes[n].childItems) :
              LET k == nodes[n].childItems[i]
              IN  /\ nodes[k].type = "DIRECTORY"
                  /\ Len(PresentDigests(ChildResults(k))) = 1
                  /\ \E j \in 1..Len(nodes[k].childItems) :
                        /\ nodes[nodes[k].childItems[j]].type = "FILE"
                        /\ existy(nodes[nodes[k].childItems[j]].digest)
                        /\ nodes[n].digest = nodes[nodes[k].childItems[j]].digest

(***************************************************************************)
(* Properties of the facade                                                *)
(***************************************************************************)
\* path and everything enumerated beneath it is a readable file or directory
RECURSIVE SubtreeReadable(_)
SubtreeReadable(path) ==
    /\ statType(fsys, path) \in {"FILE", "DIRECTORY"}
    /\ \A name \in EntriesOf(fsys, path) : SubtreeReadable(join(path, name))

\* the same of a source: a path, or a list of paths that is not empty
WholeTreeReadable(src) ==
    CASE src.t = "string" -> Len(src.s) > 0 /\ SubtreeReadable(src.s)
      [] src.t = "array" -> \A i \in 1..Len(src.a) : SubtreeReadable(src.a[i])
      [] OTHER -> FALSE

\* C7 (as stated): Build of the facade resolves true exactly when the root
\* and every entry enumerated beneath it is a readable file or directory;
\* an invalid entry beneath the root makes it resolve false.
C7_BuildIffWholeTree ==
    \A c \in 1..Len(calls) :
        (/\ calls[c].op = "FSHasher.Build" /\ calls[c].pc = "done"
         /\ ~(calls[c].src.t = "array" /\ Len(calls[c].src.a) = 0))
            => (calls[c].val.b <=> WholeTreeReadable(calls[c].src))

\* C8: a Compute of the facade made while no tree is built or the root is
\* busy resolves at once with the empty string; the call makes no request
\* and leaves every entry, the serializer and Algorithm as they were.
C8_ComputeRejected ==
    [][(/\ ncalls' = ncalls + 1
        /\ Len(calls') > Len(calls)
        /\ calls'[Len(calls) + 1].op = "FSHasher.Compute"
        /\ (hasher.rootSource = 0 \/ IsBusy(nodes, hasher.rootSource)))
          => /\ Len(calls') = Len(calls) + 1
             /\ calls'[Len(calls) + 1].pc = "done"
             /\ calls'[Len(calls) + 1].val = PlainVal(EmptyString)
             /\ UNCHANGED <<nodes, hasher, requests, ser, timers>>]_vars

\* Compute was called while the root was busy, it resolved with the empty
\* string and the root is busy still
C8_Witness ==
    \E c \in 1..Len(calls) :
        /\ calls[c].op = "FSHasher.Compute" /\ calls[c].pc = "done" /\ calls[c].overlap
        /\ calls[c].val = PlainVal(EmptyString)
        /\ hasher.rootSource # 0 /\ IsBusy(nodes, hasher.rootSource)
        /\ hasher.algorithm = "sha256"

\* C9 (as stated): every value Compute of the facade resolves with is a
\* string, never undefined or null; here for the calls made after Build
\* resolved true, while no other call was in flight.
C9_ComputeResolvesString ==
    \A c \in 1..Len(calls) :
        (/\ calls[c].op = "FSHasher.Compute" /\ calls[c].pc = "done" /\ ~calls[c].overlap
         /\ \E b \in 1..Len(calls) :
               calls[b].op = "FSHasher.Build" /\ calls[b].pc = "done" /\ calls[b].val.b)
            => existy(calls[c].val.digest)

\* the sources of the records of report that carry digest d, in their order
Carriers(report, d) ==
    LET carries(item) == item.digest = d
        kept == SelectSeq(report, carries)
    IN  [k \in 1..Len(kept) |-> kept[k].source]

\* C10: the map FindDuplicates resolves with has a digest as key exactly
\* when two or more records of the report carry it, each key once, and maps
\* it to the sources of exactly those records.
C10_DuplicatesExact ==
    \A c \in 1..Len(calls) :
        (calls[c].op = "FSHasher.FindDuplicates" /\ calls[c].pc = "done"
         /\ calls[c].val.kind = "map") =>
            LET report == calls[c].val.report
                map == calls[c].val.map
            IN  /\ \A i \in 1..Len(report) :
                      MapHas(map, report[i].digest)
                          <=> Len(Carriers(report, report[i].digest)) >= 2
                /\ \A e \in 1..Len(map) :
                      /\ Len(Carriers(report, map[e].key)) >= 2
                      /\ map[e].value = Carriers(report, map[e].key)
                      /\ \A f \in 1..Len(map) : map[f].key = map[e].key => f = e

\* three records, two of them files with the same digest: the map has one
\* entry with their two sources and the third source is in no entry
C10_Witness ==
    \E c \in 1..Len(calls) :
        /\ calls[c].op = "FSHasher.FindDuplicates" /\ calls[c].pc = "done"
        /\ calls[c].val.kind = "map"
        /\ Len(calls[c].val.report) = 3
        /\ Len(calls[c].val.map) = 1
        /\ existy(calls[c].val.map[1].key)
        /\ Len(calls[c].val.map[1].value) = 2
        /\ \A i \in 2..3 : calls[c].val.report[i].type = "FILE"
        /\ \E i \in 1..3 : \A k \in 1..2 :
              calls[c].val.map[1].value[k] # calls[c].val.report[i].source

(***************************************************************************)
(* Properties of the entry classes                                         *)
(***************************************************************************)
\* a Compute the client called on entry n has not resolved yet
OutstandingCompute(n) ==
    \E c \in 1..Len(calls) :
        /\ calls[c].op = "Compute" /\ calls[c].node = n /\ calls[c].parent = 0
        /\ calls[c].pc \in {"hashing", "join"}

\* C4 (as stated): a Compute called on a built entry while an earlier
\* Compute on it is outstanding resolves at once with an absent digest,
\* submits no request and leaves the busy flags, digests and children as
\* they were.
C4_BusyExclusion ==
    [][\A n \in Held :
          (/\ ncalls' = ncalls + 1
           /\ Len(calls') > Len(calls)
           /\ calls'[Len(calls) + 1].op = "Compute"
           /\ calls'[Len(calls) + 1].node = n
           /\ OutstandingCompute(n)
           /\ \A b \in 1..Len(calls) : calls[b].op = "Build" => calls[b].pc = "done")
             => /\ Len(calls') = Len(calls) + 1
                /\ calls'[Len(calls) + 1].pc = "done"
                /\ ~existy(calls'[Len(calls) + 1].val.digest)
                /\ UNCHANGED <<nodes, requests, ser, timers>>]_vars

(***************************************************************************)
(* Properties of the serializer                                            *)
(***************************************************************************)
\* the number of places request r has in the list of waiting requests
Occurrences(r) ==
    Cardinality({i \in 1..Len(ser.requestList) : ser.requestList[i] = r})

\* a request waits in the list exactly once, through every failed open, and
\* was dequeued once for each failed open and once more when it is taken
RetryCounted ==
    \A r \in 1..Len(requests) :
        /\ requests[r].phase = "queued" =>
              Occurrences(r) = 1 /\ requests[r].dequeueCount = requests[r].emfile
        /\ requests[r].phase = "opening" =>
              Occurrences(r) = 1 /\ requests[r].dequeueCount = requests[r].emfile + 1
        /\ requests[r].phase \in {"streaming", "read", "ended", "closed"} =>
              Occurrences(r) = 0 /\ requests[r].dequeueCount = requests[r].emfile + 1

\* request r is that of a readable file under a known algorithm, and waits
Admissible(r) ==
    /\ r <= Len(requests)
    /\ requests[r].phase \in {"queued", "opening"}
    /\ KindOf(fsys, requests[r].source) = "file"
    /\ ~createHashThrows(requests[r].algorithm)

\* request r was completed with STATUS_OK and a digest, once
CompletedOk(r) ==
    /\ r <= Len(requests)
    /\ requests[r].phase = "ended"
    /\ requests[r].status = "STATUS_OK"
    /\ existy(requests[r].digest)
    /\ requests[r].completions = 1

\* C5: a request whose open fails N times for want of descriptors stays in
\* the list exactly once all the while, has the dequeue count N+1 when it is
\* taken off the list, and is completed in the end with STATUS_OK and a
\* digest.
C5_AdmissionRetry ==
    /\ []RetryCounted
    /\ \A r \in 1..MaxSerCalls : Admissible(r) ~> CompletedOk(r)

\* a request was completed after MaxRetries failed opens
C5_Witness ==
    \E r \in 1..Len(requests) :
        /\ CompletedOk(r)
        /\ requests[r].emfile = MaxRetries
        /\ requests[r].dequeueCount = MaxRetries + 1

\* C6 (as stated): RecindHashRequest returns true exactly for a request that
\* waits in the list and is not being opened, and then the request is no
\* longer in the list; for any other request it returns false and changes
\* nothing.
C6_RecindRemoves ==
    [][\A r \in 1..Len(requests) :
          (/\ ncalls' = ncalls + 1
           /\ Len(calls') = Len(calls) + 1
           /\ calls'[Len(calls) + 1].op = "RecindHashRequest"
           /\ calls'[Len(calls) + 1].idx = r)
             => /\ calls'[Len(calls) + 1].val.b <=> requests[r].phase = "queued"
                /\ calls'[Len(calls) + 1].val.b =>
                      \A i \in 1..Len(ser'.requestList) : ser'.requestList[i] # r
                /\ requests[r].phase # "queued" => UNCHANGED <<requests, ser, timers>>]_vars

(***************************************************************************)
(* Properties of the public class FSHasher                                 *)
(***************************************************************************)
\* the call records of the object w that the step makes or changes
Touched(w) ==
    {c \in 1..Len(calls') : calls'[c].wrapper = w /\ (c > Len(calls) \/ calls'[c] # calls[c])}

\* C11: an FSHasher object on which destroy() was called stays out of the
\* registry; every later use of it (Build, Compute, Report, FindDuplicates,
\* reading Version, Source, Algorithm or IsBusy) raises the ReferenceError
\* at once and changes nothing else; destroy() on it again changes nothing;
\* destroy() on a registered object removes that object alone and leaves
\* the other objects and everything they own as they were.
C11_Disposal ==
    [][\A w \in Wrappers :
          /\ w \notin registry =>
                /\ w \notin registry'
                /\ (ncalls' = ncalls + 1 /\ Touched(w) # {}) =>
                      /\ \A c \in Touched(w) :
                            calls'[c].pc = "threw" /\ calls'[c].err = "ReferenceError"
                      /\ UNCHANGED <<nodes, hasher, requests, ser, timers, registry>>
          /\ (w \in registry /\ w \notin registry') =>
                /\ registry' = registry \ {w}
                /\ UNCHANGED <<nodes, hasher, calls, ncalls, requests, ser, timers>>]_vars

\* the first object was used to build a tree, destroyed and used again; the
\* second is still registered and has answered a getter
C11_Witness ==
    /\ 1 \notin registry /\ 2 \in registry
    /\ hasher.rootSource # 0
    /\ \E c \in 1..Len(calls) :
          calls[c].wrapper = 1 /\ calls[c].pc = "threw" /\ calls[c].err = "ReferenceError"
    /\ \E c \in 1..Len(calls) : calls[c].wrapper = 2 /\ calls[c].pc = "done"

\* C12: Build called with a source that is neither a string nor an array,
\* the falsy ones (undefined, 0, false) included, raises a TypeError at once;
\* it hands out no promise.
C12_BuildFailsFast ==
    \A c \in 1..Len(calls) :
       (calls[c].op = "FSHasher.Build" /\ calls[c].src.t \notin {"string", "array"}) =>
          calls[c].pc = "threw" /\ calls[c].err = "TypeError"

\* C13: whenever the list of waiting requests and the list of active
\* workers are both empty and no processing step is running, the singleton
\* serializer does not exist, whatever became of the last request.
C13_SingletonTornDown ==
    (Len(ser.requestList) = 0 /\ Len(ser.pendingList) = 0 /\ ~ser.running) => ~ser.exists

(***************************************************************************)
(* Properties of the opening of a request                                  *)
(***************************************************************************)
\* the statuses of an opening failure that is not tried again
OpenFailures == {"STATUS_ERR_INVALID_ALGORITHM", "STATUS_ERR_ACCESS_DENIED", "STATUS_ERR_OTHER"}

\* the opening of request r is bound to fail for good: with the status st
\* when nothing else goes wrong
FailsToOpen(r, st) ==
    \/ createHashThrows(requests[r].algorithm) /\ st = "STATUS_ERR_INVALID_ALGORITHM"
    \/ /\ ~createHashThrows(requests[r].algorithm)
       /\ \/ KindOf(fsys, requests[r].source) = "denied" /\ st = "STATUS_ERR_ACCESS_DENIED"
          \/ KindOf(fsys, requests[r].source) \notin {"file", "dir", "denied"} /\ st = "STATUS_ERR_OTHER"

\* the processing step of request r ends in this step
StepEnds(r) ==
    /\ ser.exists /\ ser.running /\ ser.step = r /\ Head(ser.requestList) = r
    /\ ~(ser'.running /\ ser'.step = r)

InList(r, list) == \E i \in 1..Len(list) : list[i] = r

\* C14: when the processing step of a request ends with a failure to open
\* that is not for want of descriptors (unknown algorithm, access denied,
\* any other error), the request is off the list of waiting requests, it is
\* not among the active workers, and its waiter was notified exactly once
\* more, with that status and no digest.  A request whose algorithm is
\* unknown, whose file may not be read or whose path does not exist ends
\* its step that way with the matching status, unless the open failed for
\* want of descriptors or by a fault of the file system.
C14_OpeningFailure ==
    [][\A r \in 1..Len(requests) :
          (StepEnds(r) /\ r <= Len(requests')) =>
             /\ requests'[r].phase = "failed" =>
                   /\ ~InList(r, ser'.requestList)
                   /\ ~InList(r, ser'.pendingList)
                   /\ requests'[r].status \in OpenFailures
                   /\ requests'[r].digest = Undefined
                   /\ requests'[r].completions = requests[r].completions + 1
             /\ \A st \in OpenFailures :
                   FailsToOpen(r, st) =>
                      \/ requests'[r].phase = "failed" /\ requests'[r].status = st
                      \/ requests'[r].phase = "failed" /\ requests'[r].status = "STATUS_ERR_OTHER"
                            /\ faults'.io < faults.io
                      \/ requests'[r].phase = "queued" /\ faults'.emfile < faults.emfile]_vars

\* two requests whose opening failed for good, for different reasons, are
\* on record: each waiter was notified once, without a digest, and neither
\* request is waiting or active
C14_Witness ==
    \E r1, r2 \in 1..Len(requests) :
       /\ requests[r1].status = "STATUS_ERR_INVALID_ALGORITHM"
       /\ requests[r2].status \in {"STATUS_ERR_ACCESS_DENIED", "STATUS_ERR_OTHER"}
       /\ \A r \in {r1, r2} :
             /\ requests[r].phase = "failed"
             /\ requests[r].completions = 1 /\ requests[r].digest = Undefined
             /\ ~InList(r, ser.requestList) /\ ~InList(r, ser.pendingList)

(***************************************************************************)
(* Properties of Build on the entry classes                                *)
(***************************************************************************)
\* the call records the step makes
Made == {c \in 1..Len(calls') : c > Len(calls) \/ calls[c].pc = "free"}

\* C15: Build called on an entry that is busy hands out a promise that is
\* resolved with false; nothing is raised and the promise does not stay
\* pending.
C15_BusyBuildResolvesFalse ==
    [][\A c \in Made :
          (/\ calls'[c].op = "Build" /\ calls'[c].parent = 0
           /\ calls'[c].node <= Len(nodes) /\ nodes[calls'[c].node].busy) =>
             calls'[c].pc = "done" /\ calls'[c].val = BoolVal(FALSE)]_vars

\* the Build call c of a directory or batch entry has all its children's
\* results and resolves in this step
BuildResolves(c) ==
    /\ calls[c].op = "Build" /\ nodes[calls[c].node].type \in {"DIRECTORY", "BATCH"}
    /\ \/ calls[c].pc = "join"
       \/ calls[c].pc = "readdir" /\ KindOf(fsys, Source(nodes, calls[c].node)) = "dir"
    /\ c <= Len(calls') /\ calls'[c].pc = "done"

\* C16: the Build of a directory or batch entry resolves with the logical
\* AND of the results of the Builds of its children: true when it has no
\* child (an empty directory, an empty batch list, a directory none of
\* whose entries produced a child).
C16_BuildIsAndOfChildren ==
    [][\A c \in 1..Len(calls) :
          BuildResolves(c) =>
             calls'[c].val = BoolVal(\A k \in 1..Len(calls[c].kids) : calls[calls[c].kids[k]].val.b)]_vars

\* the Build calls made on batch entries with a depth other than 0
DeepBatchBuilds ==
    {c \in 1..Len(calls) :
        calls[c].op = "Build" /\ nodes[calls[c].node].type = "BATCH" /\ calls[c].depth # 0}

\* C17: every batch entry has depth 0 and is the child of no entry; Build
\* of a batch entry with a depth other than 0 raises a RangeError and
\* leaves the entry without source and children; the children a directory
\* or batch entry makes are files and directories.
C17_BatchAtRoot ==
    /\ \A n \in 1..Len(nodes) :
          /\ nodes[n].type = "BATCH" => nodes[n].depth = 0
          /\ \A i \in 1..Len(nodes[n].childItems) :
                nodes[nodes[n].childItems[i]].type \in {"FILE", "DIRECTORY"}
    /\ \A c \in DeepBatchBuilds :
          /\ calls[c].pc = "threw" /\ calls[c].err = "RangeError"
          /\ nodes[calls[c].node].source = JsUndefined
          /\ nodes[calls[c].node].childItems = << >>

\* Build(list, 1) was called on a batch entry
C17_Witness == DeepBatchBuilds # {}

(***************************************************************************)
(* Properties of Report                                                    *)
(***************************************************************************)
\* the entries of the tree under n in pre-order, the directories among the
\* children of an entry before the files, each group in the order of Build
RECURSIVE Preorder(_, _)
RECURSIVE PreorderAll(_, _)
Preorder(ns, n) ==
    LET isDir(c) == ns[c].type = "DIRECTORY"
        isFile(c) == ns[c].type = "FILE"
    IN  <<n>> \o (IF ns[n].type = "FILE" THEN << >>
                  ELSE PreorderAll(ns, SelectSeq(ns[n].childItems, isDir)
                                          \o SelectSeq(ns[n].childItems, isFile)))
PreorderAll(ns, children) ==
    IF Len(children) = 0 THEN << >>
    ELSE Preorder(ns, Head(children)) \o PreorderAll(ns, Tail(children))

\* a record without its digest
Place(item) == [type |-> item.type, source |-> item.source, depth |-> item.depth]

\* the tree under the root is built and nothing is in flight on it
RootIdle ==
    /\ hasher.rootSource # 0
    /\ HasSource(nodes, hasher.rootSource)
    /\ ~IsBusy(nodes, hasher.rootSource)

\* the records Report would give now for the tree under the root
ReportNow == nodeReport(nodes, hasher.rootSource).report

\* the reports handed to FindDuplicates so far
ReportsTaken ==
    {c \in 1..Len(calls) :
        calls[c].op = "FSHasher.FindDuplicates" /\ calls[c].pc = "done" /\ calls[c].val.kind = "map"}

\* the report the call c of FindDuplicates has asked for is handed to it
ReportHandedOut(c) ==
    /\ calls[c].op = "FSHasher.FindDuplicates" /\ calls[c].pc = "report"
    /\ calls'[c].pc = "done" /\ calls'[c].val.kind = "map"

\* C18: Report on a built tree on which nothing is in flight gives exactly
\* one record for each entry, in pre-order: the record of an entry, then
\* the reports of its child directories, then those of its child files.
\* The record of an entry holds its type, source, depth and digest.  The
\* order is that of the tree alone: a report that is handed out, before or
\* after Compute, lists the entries of the tree in that order.
C18_ReportPreorder ==
    /\ [](RootIdle =>
             LET P == Preorder(nodes, hasher.rootSource)
             IN  ReportNow = [i \in 1..Len(P) |-> ReportItem(nodes, P[i])])
    /\ [][\A c \in 1..Len(calls) :
             ReportHandedOut(c) =>
                LET P == Preorder(nodes, calls[c].node)
                    report == calls'[c].val.report
                IN  [i \in 1..Len(report) |-> Place(report[i])]
                       = [i \in 1..Len(P) |-> Place(ReportItem(nodes, P[i]))]]_vars

\* a report of at least four records was taken of a tree whose root has a
\* file as its first child and a directory after it; the digests are
\* computed
C18_Witness ==
    /\ RootIdle
    /\ nodes[hasher.rootSource].digest # Undefined
    /\ Len(nodes[hasher.rootSource].childItems) > 1
    /\ nodes[nodes[hasher.rootSource].childItems[1]].type = "FILE"
    /\ \E i \in 2..Len(nodes[hasher.rootSource].childItems) :
          nodes[nodes[hasher.rootSource].childItems[i]].type = "DIRECTORY"
    /\ \E c \in ReportsTaken : Len(calls[c].val.report) >= 4 /\ calls[c].val.report = ReportNow

\* the Report calls of the client of the entry classes that the step makes
ReportsMade == {c \in Made : calls'[c].op = "Report"}

\* C19: Report called on an entry that is busy or was not built resolves
\* with an absent result, null, and no record at all, whatever the class of
\* the entry.
C19_ReportAbsent ==
    [][\A c \in ReportsMade :
          LET n == calls'[c].node
          IN  (IsBusy(nodes, n) \/ ~HasSource(nodes, n)) =>
                 /\ calls'[c].pc = "done"
                 /\ ~calls'[c].val.b
                 /\ calls'[c].val.report = <<NullItem>>]_vars

(***************************************************************************)
(* Properties of the digest of an entry                                    *)
(***************************************************************************)
\* the Computes of the client on entry n that resolved with the digest d
ComputedAs(n, d) ==
    {c \in 1..Len(calls) :
        /\ calls[c].op = "Compute" /\ calls[c].parent = 0 /\ calls[c].node = n
        /\ calls[c].pc = "done" /\ calls[c].val.digest = d}

\* C20: the digest of an entry is absent for the whole time a Compute on
\* the entry is in flight, and the digest of an entry the client holds is
\* only present when a Compute on it has completed with that digest.
C20_DigestInvariant ==
    /\ \A n \in 1..Len(nodes) : OutstandingCompute(n) => nodes[n].digest = Undefined
    /\ \A n \in Held : nodes[n].digest \notin {Undefined, Null} => ComputedAs(n, nodes[n].digest) # {}

(***************************************************************************)
(* Properties of Compute on a directory or batch entry                     *)
(***************************************************************************)
\* the Compute call c of a directory or batch entry resolves in this step,
\* after the Computes of its children
JoinResolves(c) ==
    /\ calls[c].op = "Compute" /\ calls[c].pc = "join"
    /\ c <= Len(calls') /\ calls'[c].pc = "done"

\* the digests the children's Computes resolved with
KidDigests(c) == [k \in 1..Len(calls[c].kids) |-> calls[calls[c].kids[k]].val.digest]

NoKidDigest(c) == \A k \in 1..Len(calls[c].kids) : ~existy(KidDigests(c)[k])

\* C21 (as stated): when no child of a directory or batch entry produced a
\* digest, Compute resolves with an absent digest, the digest of the entry
\* is absent, and no error is signalled.
C21_ResolvesWithoutError ==
    [][\A c \in 1..Len(calls) :
          (JoinResolves(c) /\ NoKidDigest(c)) =>
             /\ ~existy(nodes'[calls[c].node].digest)
             /\ ~existy(calls'[c].val.digest)
             /\ calls'[c].err = ""]_vars

\* C21 (amended): when no child of a directory or batch entry produced a
\* digest, Compute resolves with an absent digest and the digest of the
\* entry is absent; an error is signalled after the resolution exactly when
\* createHash does not know the algorithm.
C21_NoDigestStaysAbsent ==
    [][\A c \in 1..Len(calls) :
          (JoinResolves(c) /\ NoKidDigest(c)) =>
             /\ ~existy(nodes'[calls[c].node].digest)
             /\ ~existy(calls'[c].val.digest)
             /\ (calls'[c].err # "") = createHashThrows(calls[c].alg)]_vars

\* Compute('md5') on a directory with children has resolved with an absent
\* digest: no child produced one
C21_Witness ==
    /\ hasher.rootSource # 0 /\ hasher.algorithm = "md5"
    /\ nodes[hasher.rootSource].type = "DIRECTORY"
    /\ Len(nodes[hasher.rootSource].childItems) > 0
    /\ ~IsBusy(nodes, hasher.rootSource)
    /\ \E c \in 1..Len(calls) :
          /\ calls[c].op = "FSHasher.Compute" /\ calls[c].pc = "done" /\ ~calls[c].overlap
          /\ calls[c].val = PlainVal(Undefined)

(***************************************************************************)
(* Properties of the Algorithm property of the facade                      *)
(***************************************************************************)
\* the value the property is said to take for an argument of Compute
AlgorithmFor(a) == IF a.t = "string" THEN a.name ELSE "sha256"

\* C22: Algorithm is sha256 on a new facade; a Compute made while the facade
\* has a root that is idle sets it to the string passed, or to sha256 when
\* the argument is not a string; every other step, a Compute made without a
\* root or on a busy root included, leaves it as it was.
C22_AlgorithmFrame ==
    /\ hasher.algorithm = "sha256"
    /\ [][/\ \A a \in ComputeArgs :
                FSHasherCompute(a) =>
                   hasher'.algorithm = IF RootReady THEN AlgorithmFor(a) ELSE hasher.algorithm
          /\ hasher'.algorithm # hasher.algorithm =>
                RootReady /\ \E a \in ComputeArgs : FSHasherCompute(a)]_vars

\* Compute('bogus') was accepted, a Report has been made since, and the
\* property holds the name passed to Compute
C22_Witness ==
    /\ hasher.algorithm = "bogus"
    /\ \E c, d \in 1..Len(calls) :
          /\ c < d
          /\ calls[c].op = "FSHasher.Compute" /\ calls[c].pc = "done"
          /\ calls[d].op = "FSHasher.Report" /\ calls[d].pc = "done"

(***************************************************************************)
(* Properties of the processing step of the serializer                     *)
(***************************************************************************)
\* the processing step of request r ends in this step because the open
\* failed for want of descriptors
RetryEnds(r) ==
    /\ ser.exists /\ ser.running /\ ser.step = r
    /\ requests[r].phase = "opening"
    /\ r <= Len(requests') /\ requests'[r].phase = "queued"

\* a processing step begins in this step
StepBegins == ser'.exists /\ ser'.running /\ ~(ser.exists /\ ser.running)

\* request r waits for an open that failed for want of descriptors to be
\* tried again
AwaitsRetry(r) == requests[r].phase = "queued" /\ requests[r].emfile > 0

\* C23: the end of a processing step whose open failed for want of
\* descriptors changes neither the list of waiting requests nor the list of
\* active workers and notifies nobody: it ends the step and schedules
\* another, nothing else.  The request stays at the head of the list until
\* a step begins, that step takes it again, and counts the dequeue.
C23_RetryFrame ==
    /\ [](\A r \in 1..Len(requests) :
             AwaitsRetry(r) => ser.exists /\ Len(ser.requestList) > 0 /\ Head(ser.requestList) = r)
    /\ [][\A r \in 1..Len(requests) :
             /\ RetryEnds(r) =>
                   /\ ser' = [ser EXCEPT !.running = FALSE, !.step = 0]
                   /\ timers' = Append(timers, ser.epoch)
                   /\ Len(requests') = Len(requests)
                   /\ \A q \in 1..Len(requests) :
                         /\ requests'[q].completions = requests[q].completions
                         /\ requests'[q].status = requests[q].status
                         /\ requests'[q].digest = requests[q].digest
                         /\ requests'[q].dequeueCount = requests[q].dequeueCount
                         /\ q # r => requests'[q] = requests[q]
                   /\ UNCHANGED <<nodes, hasher, calls>>
             /\ (AwaitsRetry(r) /\ StepBegins) =>
                   /\ ser'.step = r /\ requests'[r].phase = "opening"
                   /\ requests'[r].dequeueCount = requests[r].dequeueCount + 1
                   /\ Head(ser'.requestList) = r]_vars

\* the open of a request failed for want of descriptors while another
\* request waited behind it and a worker was active: it is at the head still
C23_Witness ==
    \E r \in 1..Len(requests) :
        /\ AwaitsRetry(r)
        /\ Len(ser.requestList) > 1 /\ Head(ser.requestList) = r
        /\ Len(ser.pendingList) > 0
        /\ requests[r].completions = 0
        /\ Len(timers) > 0

\* the requests whose open is being tried
Opening == {r \in 1..Len(requests) : requests[r].phase = "opening"}

\* C24: at most one request is being opened at any time, the one of the
\* processing step in progress; while a step is in progress no call of
\* processRequests, from SubmitHashRequest, from a timer or after a worker is
\* done, begins another or counts a dequeue.
C24_OneStepAtATime ==
    /\ [](/\ Cardinality(Opening) <= 1
          /\ \A r \in Opening : ser.exists /\ ser.running /\ ser.step = r)
    /\ [][(ser.exists /\ ser.running /\ ser'.exists /\ ser'.running) =>
             /\ ser'.step \in {ser.step, 0}
             /\ \A r \in 1..Len(requests) :
                   r <= Len(requests') => requests'[r].dequeueCount = requests[r].dequeueCount]_vars

\* a request is being opened while another waits behind it, a worker is
\* active and a timer is due
C24_Witness ==
    /\ Cardinality(Opening) = 1
    /\ Len(ser.requestList) > 1
    /\ Len(ser.pendingList) > 0
    /\ Len(timers) > 0

\* a call of processRequests on the serializer is due
StepScheduled == \E i \in 1..Len(timers) : timers[i] = ser.epoch

\* a processing step is in progress: it waits for Prepare() on the head of
\* the list
StepInProgress ==
    /\ ser.running /\ ser.step # 0
    /\ Len(ser.requestList) > 0 /\ ser.step = Head(ser.requestList)
    /\ requests[ser.step].phase = "opening"

Waits(r) == r <= Len(requests) /\ requests[r].phase = "queued"
Taken(r) == r <= Len(requests) /\ requests[r].phase = "opening"

\* C25: whenever requests wait in the list, a processing step is in progress
\* or one is scheduled; and every request that waits, one submitted during a
\* step included, is taken by a step later.
C25_NoLostWakeup ==
    /\ [](Len(ser.requestList) > 0 => ser.exists /\ (StepInProgress \/ StepScheduled))
    /\ \A r \in 1..MaxSerCalls : Waits(r) ~> Taken(r)

\* a request was submitted during the step of another: it waits, and nothing
\* but the end of that step will schedule the step that takes it
C25_Witness ==
    /\ StepInProgress
    /\ Len(timers) = 0
    /\ \E r \in 1..Len(requests) :
          /\ Waits(r) /\ requests[r].dequeueCount = 0
          /\ InList(r, ser.requestList) /\ r # ser.step

\* the list holds the requests in the order in which they were submitted: a
\* request is recorded behind every request on record at its submission
InSubmissionOrder(list) == \A i, j \in 1..Len(list) : i < j => list[i] < list[j]

\* the requests that have been submitted and not yet left the list
NotYetAdmitted == {r \in 1..Len(requests) : requests[r].phase \in {"queued", "opening"}}

\* C26: the list of waiting requests holds exactly the requests not yet
\* admitted or failed, in the order of their submission; only its head is
\* ever being opened, and a request leaves the list only from its head.  So
\* requests leave in the order of submission, and while the head's open
\* fails for want of descriptors no request behind it is taken.
C26_FifoAdmission ==
    /\ [](/\ InSubmissionOrder(ser.requestList)
          /\ {ser.requestList[i] : i \in 1..Len(ser.requestList)} = NotYetAdmitted
          /\ \A r \in Opening : r = Head(ser.requestList)
          /\ \A r \in NotYetAdmitted \ Opening :
                r # Head(ser.requestList) => requests[r].dequeueCount = 0)
    /\ [][ser'.requestList # ser.requestList =>
             \/ /\ Len(ser.requestList) > 0
                /\ ser'.requestList = Tail(ser.requestList)
                /\ Head(ser.requestList) \in Opening
             \/ /\ Len(requests') > 0
                /\ requests'[Len(requests')].dequeueCount <= 1
                /\ ser'.requestList = Append(ser.requestList, Len(requests'))]_vars

\* the open of the head has failed MaxRetries times for want of descriptors
\* while two requests submitted after it wait behind it, never taken
C26_Witness ==
    /\ Len(ser.requestList) = 3
    /\ requests[Head(ser.requestList)].emfile = MaxRetries
    /\ \A i \in 2..3 : requests[ser.requestList[i]].dequeueCount = 0

(***************************************************************************)
(* Properties of the life of a request                                     *)
(***************************************************************************)
\* the stage of a request: it waits, it is being opened, its stream is read,
\* it was completed with a digest, or it was completed without one
Stage(q) ==
    CASE q.phase = "queued" -> "queued"
      [] q.phase = "opening" -> "opening"
      [] q.phase \in {"streaming", "read"} -> "streaming"
      [] q.phase = "ended" -> "done"
      [] q.phase \in {"errored", "failed"} -> "failed"
      [] q.phase = "closed" -> IF q.status = "STATUS_OK" THEN "done" ELSE "failed"
      [] OTHER -> "created"

StageMoves ==
    { <<"queued", "opening">>, <<"opening", "streaming">>, <<"streaming", "done">>,
      <<"opening", "queued">>, <<"opening", "failed">>, <<"streaming", "failed">> }

\* C27: a request moves only from queued to opening, from opening to
\* streaming, back to queued or to failed, and from streaming to done or to
\* failed; done and failed are final.  It is never both in the list of
\* waiting requests and among the active workers, it is in the list exactly
\* while it is queued or opening and never enters it again, and its client
\* is notified once, when it becomes done or failed, and never again.
C27_RequestLifeCycle ==
    /\ [](\A r \in 1..Len(requests) :
             /\ Stage(requests[r]) \in {"queued", "opening", "streaming", "done", "failed"}
             /\ ~(InList(r, ser.requestList) /\ InList(r, ser.pendingList))
             /\ InList(r, ser.requestList) <=> Stage(requests[r]) \in {"queued", "opening"}
             /\ InList(r, ser.pendingList) => Stage(requests[r]) \in {"streaming", "done", "failed"}
             /\ Stage(requests[r]) = "streaming" => InList(r, ser.pendingList)
             /\ requests[r].completions =
                   (IF Stage(requests[r]) \in {"done", "failed"} THEN 1 ELSE 0))
    /\ [][/\ \A r \in 1..Len(requests) :
                /\ ~InList(r, ser.requestList) => ~InList(r, ser'.requestList)
                /\ r <= Len(requests') =>
                      /\ requests'[r].completions >= requests[r].completions
                      /\ Stage(requests'[r]) # Stage(requests[r]) =>
                            <<Stage(requests[r]), Stage(requests'[r])>> \in StageMoves
          /\ \A r \in 1..Len(requests') :
                r > Len(requests) => Stage(requests'[r]) \in {"queued", "opening"}]_vars

\* on record at once: a request whose open failed for good, a request whose
\* stream failed after it was opened, and a request that waits for its open
\* to be tried again
C27_Witness ==
    \E r1, r2, r3 \in 1..Len(requests) :
        /\ requests[r1].phase = "failed" /\ requests[r1].completions = 1
        /\ requests[r2].phase = "errored" /\ requests[r2].completions = 1
        /\ AwaitsRetry(r3)

(***************************************************************************)
(* Progress of the serializer                                              *)
(***************************************************************************)
\* request r is on record and its client has not been notified
NotNotified(r) == r <= Len(requests) /\ requests[r].completions = 0

\* the client of request r was notified; the record of a request is dropped
\* only once it was
Notified(r) == r > Len(requests) \/ requests[r].completions = 1

Beneath(ns, n) == {Preorder(ns, n)[i] : i \in 2..Len(Preorder(ns, n))}

\* a Compute on entry d has not resolved
ComputeInFlight(cs, d) ==
    \E k \in 1..Len(cs) :
        cs[k].op = "Compute" /\ cs[k].node = d /\ cs[k].pc \in {"hashing", "join"}

\* C29: the Compute of a directory or batch entry takes its digest and
\* resolves only when the Compute it called on each of its children has
\* resolved; at that moment no Compute on an entry beneath it is in flight
\* and no entry beneath it is busy.
C29_AllOfNBarrier ==
    [][\A c \in 1..Len(calls) :
          JoinResolves(c) =>
             /\ \A k \in 1..Len(calls[c].kids) : calls[calls[c].kids[k]].pc = "done"
             /\ \A d \in Beneath(nodes', calls[c].node) :
                   ~nodes'[d].busy /\ ~ComputeInFlight(calls', d)]_vars

\* the Compute of a root directory with a directory and a file beneath it
\* has just resolved with a digest, the facade has yet to hand it out, and
\* nothing beneath the root is busy
C29_Witness ==
    \E c \in 1..Len(calls) :
        /\ calls[c].op = "Compute" /\ calls[c].pc = "done"
        /\ calls[c].parent # 0 /\ calls[calls[c].parent].op = "FSHasher.Compute"
        /\ calls[calls[c].parent].pc = "await"
        /\ existy(calls[c].val.digest)
        /\ nodes[calls[c].node].type = "DIRECTORY"
        /\ \E d1, d2 \in Beneath(nodes, calls[c].node) :
              nodes[d1].type = "DIRECTORY" /\ nodes[d2].type = "FILE"
        /\ \A d \in Beneath(nodes, calls[c].node) : ~nodes[d].busy

(***************************************************************************)
(* Properties of a failure of the combination                              *)
(***************************************************************************)
\* the Compute call c of a directory or batch entry leaves its join in this
\* step
JoinEnds(c) ==
    /\ calls[c].op = "Compute" /\ calls[c].pc = "join"
    /\ c > Len(calls') \/ calls'[c].pc # "join"

\* C30: when the combination of the children's digests raises (createHash
\* does not know the algorithm), Compute resolves with the source of the
\* entry and the digest null, the entry is no longer busy, its digest is
\* absent, and FSHashError is raised with the resolution behind it; when
\* nothing is raised Compute resolves without an error.
C30_CombineFailure ==
    [][\A c \in 1..Len(calls) :
          JoinEnds(c) =>
             /\ c <= Len(calls') /\ calls'[c].pc = "done"
             /\ IF createHashThrows(calls[c].alg)
                THEN /\ calls'[c].val = ResultVal(Source(nodes, calls[c].node), Null)
                     /\ ~nodes'[calls[c].node].busy
                     /\ ~existy(nodes'[calls[c].node].digest)
                     /\ calls'[c].err = "FSHashError"
                ELSE calls'[c].err = ""]_vars

\* Compute('bogus') of a directory with children has resolved with the
\* digest null and raised FSHashError; the directory is not busy and has no
\* digest
C30_Witness ==
    \E c \in 1..Len(calls) :
        /\ calls[c].op = "Compute" /\ calls[c].pc = "done"
        /\ calls[c].alg = "bogus" /\ calls[c].err = "FSHashError"
        /\ calls[c].val.digest = Null
        /\ nodes[calls[c].node].type = "DIRECTORY"
        /\ Len(nodes[calls[c].node].childItems) > 0
        /\ ~nodes[calls[c].node].busy
        /\ nodes[calls[c].node].digest = Undefined

(***************************************************************************)
(* Properties of Compute on a file entry                                   *)
(***************************************************************************)
\* C31 (as stated): a Compute on a file entry under an algorithm createHash
\* does not know, the empty string included, is never left pending without
\* a request: it waits for its request, which carries that algorithm, or it
\* has resolved with an absent digest.
C31_UnknownAlgorithmFailsAtLeaf ==
    \A c \in 1..Len(calls) :
        (/\ calls[c].op = "Compute"
         /\ nodes[calls[c].node].type = "FILE"
         /\ createHashThrows(calls[c].alg)) =>
            \/ /\ calls[c].pc = "hashing"
               /\ \E r \in 1..Len(requests) :
                     requests[r].listener = c /\ requests[r].algorithm = calls[c].alg
            \/ calls[c].pc = "done" /\ ~existy(calls[c].val.digest)

(***************************************************************************)
(* Properties of the active workers                                        *)
(***************************************************************************)
\* the open of request r fails in this step, for good or to be tried again
OpenFails(r) ==
    /\ ser.exists /\ ser.running /\ ser.step = r
    /\ requests[r].phase = "opening"
    /\ r > Len(requests') \/ requests'[r].phase \in {"failed", "queued"}

\* C32: only the opening is serialized.  A processing step begins whether
\* or not workers are active, every request whose open succeeds joins the
\* active workers behind those already there, and a failed open of a
\* request, final or to be tried again, changes neither the list of active
\* workers nor the record of any request in it.
C32_OnlyOpeningBounded ==
    [][/\ \A r \in 1..Len(requests) :
             OpenFails(r) =>
                /\ ser'.pendingList = ser.pendingList
                /\ \A i \in 1..Len(ser.pendingList) :
                      /\ ser.pendingList[i] <= Len(requests')
                      /\ requests'[ser.pendingList[i]] = requests[ser.pendingList[i]]
       /\ (~ser.running /\ ser.exists /\ Len(ser.requestList) > 0 /\ TimerFire
              /\ Head(timers) = ser.epoch) =>
                ser'.running /\ ser'.pendingList = ser.pendingList
       /\ \A r \in 1..Len(requests) :
             (ser.running /\ ser.step = r /\ r <= Len(requests')
                 /\ requests'[r].phase = "streaming") =>
                ser'.pendingList = Append(ser.pendingList, r)]_vars

\* two workers are active, their streams open, while the open of a third
\* request has failed for want of descriptors
C32_Witness ==
    /\ Len(ser.pendingList) = 2
    /\ \A i \in 1..2 : requests[ser.pendingList[i]].phase \in {"streaming", "read"}
    /\ \E r \in 1..Len(requests) : AwaitsRetry(r)


(* Properties of the release of the busy flag *)
\* the calls on entry n that have neither resolved nor raised
Running(n) ==
    {c \in 1..Len(calls) : calls[c].node = n /\ calls[c].pc \notin {"done", "thrown"}}

\* C33 (as stated): the busy flag is always released. In every state, an
\* entry whose busy flag is set has a Build or a Compute on it that is still
\* running and will clear the flag when it ends; no entry is left busy with
\* nothing in flight, whether the operation ended by a type mismatch, an
\* invalid algorithm or a failure of the hash.
C33_BusyReleased ==
    \A n \in 1..Len(nodes) : nodes[n].busy => Running(n) # {}


(* Properties of Report on a busy entry *)
\* C34 (as stated): Report on an entry that is busy with a Build or a Compute
\* leaves the busy flag of that entry set, so that the operation in flight
\* keeps excluding further Build, Compute and Report calls until it ends.
C34_ReportKeepsBusy ==
    [][\A n \in Held : (nodes[n].busy /\ NodeReport(n)) => nodes'[n].busy]_vars


(* Properties of Build on a busy entry *)
\* C35 (as stated): Build on a directory or batch entry that is busy leaves
\* the entry's source, depth, digest, busy flag and list of children
\* unchanged.
C35_BusyBuildFrame ==
    [][\A n \in Held :
          (nodes[n].type \in {"DIRECTORY", "BATCH"} /\ NodeBuildAgain(n)) =>
              /\ nodes'[n].source = nodes[n].source
              /\ nodes'[n].depth = nodes[n].depth
              /\ nodes'[n].digest = nodes[n].digest
              /\ nodes'[n].busy = nodes[n].busy
              /\ nodes'[n].childItems = nodes[n].childItems]_vars


(* Properties of overlapping calls of Build on one facade *)
\* C36 (as stated): under every interleaving of calls of Build on one facade
\* made without awaiting, whenever a call of Build resolves true the current
\* root of the facade is the tree built from the source of that call and is
\* not busy.
C36_ResolvedBuildOwnsRoot ==
    [][\A c \in 1..Len(calls) :
          (/\ calls[c].op = "FSHasher.Build" /\ calls[c].pc = "await"
           /\ Len(calls') >= c /\ calls'[c].pc = "done" /\ calls'[c].val = BoolVal(TRUE)) =>
              /\ hasher'.rootSource # 0
              /\ nodes'[hasher'.rootSource].source = calls[c].src
              /\ ~IsBusy(nodes', hasher'.rootSource)]_vars


(* Properties of the teardown of the serializer *)
\* a step that tears the instance down
TornDown == ser.exists /\ (~ser'.exists \/ ser'.epoch # ser.epoch)

\* request q waits for a step or is in one
InQueue(q) == q.phase \in {"queued", "opening"}

\* C37: the instance of the serializer is never torn down while a request is
\* in its list of requests, a step is in progress or a worker is in its
\* active list: a step that tears it down starts with an empty list of
\* requests and no step in progress, and with no worker in the active list
\* but the one whose close the step handles.  A request that was submitted
\* and waits for its step or is in it is in the list of the instance that
\* exists, so that the instance it was appended to is the one that
\* processes it.
C37_TeardownOnlyWhenIdle ==
    /\ [][TornDown =>
             /\ Len(ser.requestList) = 0
             /\ ~(ser.running /\ ser.step # 0)
             /\ \A i \in 1..Len(ser.pendingList) :
                   /\ requests[ser.pendingList[i]].phase \in {"ended", "errored"}
                   /\ StreamClosed(ser.pendingList[i])
             /\ ~IsActive(ser')]_vars
    /\ [](\A r \in 1..Len(requests) :
             InQueue(requests[r]) =>
                 /\ ser.exists
                 /\ \E i \in 1..Len(ser.requestList) : ser.requestList[i] = r)

\* a call of RecindHashRequest has found the instance with a worker in its
\* active list and a step in progress on the head of its list of requests,
\* and the instance is still there
C37_Witness ==
    /\ ser.exists /\ ser.running /\ ser.step # 0
    /\ Len(ser.pendingList) > 0
    /\ Len(ser.requestList) > 0
    /\ \E c \in 1..Len(calls) : calls[c].op = "RecindHashRequest"


(* Properties of FindDuplicates *)
\* C38 (as stated): FindDuplicates called on a root that is built and idle
\* resolves with a map, whether the root is a file, a directory or a batch:
\* after a Build that resolved true, a call that found the root ready ends
\* resolved, and what it resolves is a map.
C38_FindDuplicatesResolvesMap ==
    [][\A c \in 1..Len(calls) :
          (/\ calls[c].op = "FSHasher.FindDuplicates" /\ calls[c].pc = "report"
           /\ \A d \in 1..Len(calls) :
                 calls[d].op = "FSHasher.Build" => calls[d].pc = "done" /\ calls[d].val.b
           /\ c <= Len(calls') /\ calls'[c].pc # "report") =>
              calls'[c].pc = "done" /\ calls'[c].val.kind = "map"]_vars


(* Properties of Build on a file system that changes *)
\* call d was made, directly or through other calls, by call c
RECURSIVE MadeBy(_, _)
MadeBy(c, d) ==
    /\ calls[d].parent # 0
    /\ \/ calls[d].parent = c
       \/ calls[d].parent < d /\ MadeBy(c, calls[d].parent)

\* C39 (as stated): Build of the facade on a path or a list of paths always
\* resolves with a boolean and never raises, also when the type that the
\* entry's own probe finds for a path differs from the type found when the
\* entry was made: no call of Build ends by raising, none waits for a Build
\* of an entry that raised and so will never resolve, and what a call
\* resolves is a boolean.
C39_BuildResolvesBoolean ==
    \A c \in 1..Len(calls) :
        calls[c].op = "FSHasher.Build" =>
            /\ calls[c].pc \notin {"threw", "thrown"}
            /\ calls[c].pc = "done" => calls[c].val.kind = "boolean"
            /\ ~\E d \in 1..Len(calls) :
                   calls[d].op = "Build" /\ calls[d].pc = "thrown" /\ MadeBy(c, d)


(* Properties of the keys of the map of FindDuplicates *)
\* C40 (as stated): every key of the map that FindDuplicates resolves is a
\* digest that is present, a string; entries whose digest is absent are not
\* reported, also when FindDuplicates is called after Build and before
\* Compute, or after a Compute that left several entries without a digest
\* (the calls considered are those made while no other call is in flight).
C40_KeysArePresentDigests ==
    \A c \in 1..Len(calls) :
        (/\ calls[c].op = "FSHasher.FindDuplicates" /\ ~calls[c].overlap
         /\ calls[c].pc = "done" /\ calls[c].val.kind = "map") =>
            \A i \in 1..Len(calls[c].val.map) : existy(calls[c].val.map[i].key)
====
